---- MODULE Spec2Model ----
(***************************************************************************)
(* CML-to-PHP pipeline: parseCML (cml-parser) and generatePHP             *)
(* (php-generator).  Text is modelled as a sequence of one-character       *)
(* strings, so that trimming, prefix tests, the regular expressions and    *)
(* the case conversion are computed character by character.  A PHP file    *)
(* built through js-php-generator is modelled as the record of the builder *)
(* calls made on it (class, properties, methods, parameters, body          *)
(* statements), the printer being outside the repository.                  *)
(***************************************************************************)
EXTENDS Integers, Sequences, FiniteSets, TLC

\* ------------------------------------------------------------------------
\* Characters and strings
\* ------------------------------------------------------------------------

Lowers == <<"a", "b", "c", "d", "e", "f", "g", "h", "i", "j", "k", "l", "m", "n", "o", "p", "q", "r", "s", "t", "u", "v", "w", "x", "y", "z">>

Uppers == <<"A", "B", "C", "D", "E", "F", "G", "H", "I", "J", "K", "L", "M", "N", "O", "P", "Q", "R", "S", "T", "U", "V", "W", "X", "Y", "Z">>

Digits == {"0", "1", "2", "3", "4", "5", "6", "7", "8", "9"}

LowerSet == {Lowers[k] : k \in DOMAIN Lowers}

UpperSet == {Uppers[k] : k \in DOMAIN Uppers}

\* \s of the regular expressions and the characters String.trim removes
IsSpace(c) == c \in {" ", "\t"}

\* \w of the regular expressions: [A-Za-z0-9_]
IsWord(c) == c \in LowerSet \cup UpperSet \cup Digits \cup {"_"}

ToUpperChar(c) == IF c \in LowerSet THEN Uppers[CHOOSE k \in DOMAIN Lowers : Lowers[k] = c] ELSE c

ToLowerChar(c) == IF c \in UpperSet THEN Lowers[CHOOSE k \in DOMAIN Uppers : Uppers[k] = c] ELSE c

toUpperCase(s) == [k \in DOMAIN s |-> ToUpperChar(s[k])]

toLowerCase(s) == [k \in DOMAIN s |-> ToLowerChar(s[k])]

\* s.slice(from - 1): the suffix of s that starts at position from (1-based)
DropTo(s, from) == IF from > Len(s) THEN <<>> ELSE SubSeq(s, from, Len(s))

\* the prefix of s of length n
Take(s, n) == IF n <= 0 THEN <<>> ELSE SubSeq(s, 1, IF n > Len(s) THEN Len(s) ELSE n)

\* p occurs in s at position k
OccursAt(s, p, k) == k >= 1 /\ k + Len(p) - 1 <= Len(s) /\ SubSeq(s, k, k + Len(p) - 1) = p

startsWith(s, p) == OccursAt(s, p, 1)

endsWith(s, p) == OccursAt(s, p, Len(s) - Len(p) + 1)

includes(s, p) == \E k \in 1..(Len(s) + 1) : OccursAt(s, p, k)

\* position of the first occurrence of p in s, 0 when there is none
indexOf(s, p) == IF includes(s, p) THEN CHOOSE k \in 1..(Len(s) + 1) : OccursAt(s, p, k) /\ \A j \in 1..(k - 1) : ~OccursAt(s, p, j) ELSE 0

\* number of leading characters of s that satisfy the class
RECURSIVE SpaceRun(_)
SpaceRun(s) == IF s # <<>> /\ IsSpace(Head(s)) THEN 1 + SpaceRun(Tail(s)) ELSE 0

RECURSIVE WordRun(_)
WordRun(s) == IF s # <<>> /\ IsWord(Head(s)) THEN 1 + WordRun(Tail(s)) ELSE 0

RECURSIVE TrimEnd(_)
TrimEnd(s) == IF s # <<>> /\ IsSpace(s[Len(s)]) THEN TrimEnd(SubSeq(s, 1, Len(s) - 1)) ELSE s

\* String.prototype.trim
trim(s) == TrimEnd(DropTo(s, SpaceRun(s) + 1))

\* s.split(c) for a one-character separator c
RECURSIVE split(_, _)
split(s, c) == IF \E k \in DOMAIN s : s[k] = c THEN LET k == CHOOSE k \in DOMAIN s : s[k] = c /\ \A j \in 1..(k - 1) : s[j] # c IN <<Take(s, k - 1)>> \o split(DropTo(s, k + 1), c) ELSE <<s>>

\* parts.join(c)
RECURSIVE join(_, _)
join(parts, c) == IF parts = <<>> THEN <<>> ELSE IF Len(parts) = 1 THEN parts[1] ELSE parts[1] \o <<c>> \o join(Tail(parts), c)

\* s.split(/\s+/).filter(p => p): the whitespace-separated tokens of s
RECURSIVE Tokens(_)
Tokens(s) == IF s = <<>> THEN <<>> ELSE IF IsSpace(Head(s)) THEN Tokens(DropTo(s, SpaceRun(s) + 1)) ELSE LET n == CHOOSE n \in 1..Len(s) : (\A j \in 1..n : ~IsSpace(s[j])) /\ (n = Len(s) \/ IsSpace(s[n + 1])) IN <<Take(s, n)>> \o Tokens(DropTo(s, n + 1))

\* s.replace(/c/g, '') for one character c
RECURSIVE RemoveChar(_, _)
RemoveChar(s, c) == IF s = <<>> THEN <<>> ELSE (IF Head(s) = c THEN <<>> ELSE <<Head(s)>>) \o RemoveChar(Tail(s), c)

\* seq.filter(v => v): drops the empty strings of a list
RECURSIVE NonEmpty(_)
NonEmpty(seq) == IF seq = <<>> THEN <<>> ELSE (IF Head(seq) = <<>> THEN <<>> ELSE <<Head(seq)>>) \o NonEmpty(Tail(seq))

\* s.replace(/\/\/.*$/, ''): drops a line comment
StripComment(s) == IF includes(s, <<"/", "/">>) THEN Take(s, indexOf(s, <<"/", "/">>) - 1) ELSE s

\* s.replace(/[;,\/\/].*$/, ''): cuts s at its first ';', ',' or '/'
CutAtSeparator(s) == IF \E k \in DOMAIN s : s[k] \in {";", ",", "/"} THEN Take(s, (CHOOSE k \in DOMAIN s : s[k] \in {";", ",", "/"} /\ \A j \in 1..(k - 1) : s[j] \notin {";", ",", "/"}) - 1) ELSE s

\* ------------------------------------------------------------------------
\* cml-parser: literals
\* ------------------------------------------------------------------------

kwBoundedContext == <<"B", "o", "u", "n", "d", "e", "d", "C", "o", "n", "t", "e", "x", "t", " ">>

kwAggregate == <<"A", "g", "g", "r", "e", "g", "a", "t", "e", " ">>

kwEntity == <<"E", "n", "t", "i", "t", "y", " ">>

kwValueObject == <<"V", "a", "l", "u", "e", "O", "b", "j", "e", "c", "t", " ">>

kwEnum == <<"e", "n", "u", "m", " ">>

sEnumWord == <<"e", "n", "u", "m">>

sAggregateRoot == <<"a", "g", "g", "r", "e", "g", "a", "t", "e", "R", "o", "o", "t">>

sNullable == <<"n", "u", "l", "l", "a", "b", "l", "e">>

sSetOpen == <<"S", "e", "t", "<">>

sListOpen == <<"L", "i", "s", "t", "<">>

sCloseBrace == <<"}">>

sOpenBrace == <<"{">>

\* ------------------------------------------------------------------------
\* cml-parser: parseProperty
\* ------------------------------------------------------------------------

\* /KEYWORD\s+(\w+)/ tried at position p of line (keyword given with its
\* trailing blank, which is the first character of \s+)
NameMatchesAt(line, kw, p) == OccursAt(line, Take(kw, Len(kw) - 1), p) /\ LET rest == DropTo(line, p + Len(kw) - 1) IN SpaceRun(rest) >= 1 /\ WordRun(DropTo(rest, SpaceRun(rest) + 1)) >= 1

\* line.match(/KEYWORD\s+(\w+)/)?.[1] || ''
MatchName(line, kw) == IF \E p \in DOMAIN line : NameMatchesAt(line, kw, p) THEN LET p == CHOOSE p \in DOMAIN line : NameMatchesAt(line, kw, p) /\ \A q \in 1..(p - 1) : ~NameMatchesAt(line, kw, q) rest == DropTo(line, p + Len(kw) - 1) word == DropTo(rest, SpaceRun(rest) + 1) IN Take(word, WordRun(word)) ELSE <<>>

\* /Set<\w+>/ or /List<\w+>/ (open is "Set<" or "List<") matches at the head of s
WrapperAtHead(s, open) == startsWith(s, open) /\ LET inner == DropTo(s, Len(open) + 1) IN WordRun(inner) >= 1 /\ WordRun(inner) < Len(inner) /\ inner[WordRun(inner) + 1] = ">"

\* length of that match
WrapperLen(s, open) == Len(open) + WordRun(DropTo(s, Len(open) + 1)) + 1

\* line.match(/(?:Set|List)<(\w+)>/): the capture of the leftmost match, '' when none
RECURSIVE CollectionType(_)
CollectionType(s) == IF s = <<>> THEN <<>> ELSE IF WrapperAtHead(s, sSetOpen) THEN Take(DropTo(s, Len(sSetOpen) + 1), WordRun(DropTo(s, Len(sSetOpen) + 1))) ELSE IF WrapperAtHead(s, sListOpen) THEN Take(DropTo(s, Len(sListOpen) + 1), WordRun(DropTo(s, Len(sListOpen) + 1))) ELSE CollectionType(Tail(s))

\* s.replace(/\s*nullable\s*/g, '')
RECURSIVE RemoveNullable(_)
RemoveNullable(s) == IF s = <<>> THEN <<>> ELSE LET afterSpace == DropTo(s, SpaceRun(s) + 1) IN IF startsWith(afterSpace, sNullable) THEN LET rest == DropTo(afterSpace, Len(sNullable) + 1) IN RemoveNullable(DropTo(rest, SpaceRun(rest) + 1)) ELSE <<Head(s)>> \o RemoveNullable(Tail(s))

\* s.replace(/Set<\w+>/g, by) and s.replace(/List<\w+>/g, by)
RECURSIVE ReplaceWrapper(_, _, _)
ReplaceWrapper(s, open, by) == IF s = <<>> THEN <<>> ELSE IF WrapperAtHead(s, open) THEN by \o ReplaceWrapper(DropTo(s, WrapperLen(s, open) + 1), open, by) ELSE <<Head(s)>> \o ReplaceWrapper(Tail(s), open, by)

\* s.replace(/[;,]/, ''): removes the first ';' or ',' of s
RemoveFirstSeparator(s) == IF \E k \in DOMAIN s : s[k] \in {";", ","} THEN LET k == CHOOSE k \in DOMAIN s : s[k] \in {";", ","} /\ \A j \in 1..(k - 1) : s[j] \notin {";", ","} IN Take(s, k - 1) \o DropTo(s, k + 1) ELSE s

\* s.replace(/^-/, '')
DropDash(s) == IF startsWith(s, <<"-">>) THEN Tail(s) ELSE s

\* lines 208-216: the line without its modifiers
CleanPropertyLine(line, collectionType) ==
    RemoveChar(trim(DropDash(ReplaceWrapper(ReplaceWrapper(RemoveNullable(line), sSetOpen, collectionType), sListOpen, collectionType))), "^")

\* lines 220-235, from the tokens of the cleaned line
PropertyFromParts(line, isCollection, collectionType, parts) ==
    IF Len(parts) < 2
    THEN <<>>
    ELSE <<[name |-> RemoveFirstSeparator(parts[2]),
            type |-> IF isCollection /\ collectionType # <<>> THEN collectionType ELSE parts[1],
            nullable |-> includes(line, sNullable),
            isRelation |-> startsWith(line, <<"-">>),
            isCollection |-> isCollection,
            isEnum |-> includes(line, <<"^">>)]>>

\* lines 198-219
PropertyOfCollection(line, isCollection, collectionType) ==
    PropertyFromParts(line, isCollection, collectionType, Tokens(CleanPropertyLine(line, collectionType)))

\* lines 193-205
IsCollectionLine(line) == includes(line, sSetOpen) \/ includes(line, sListOpen)

\* the property of a non-empty, comment-free, trimmed line, <<>> for null
PropertyOf(line) == PropertyOfCollection(line, IsCollectionLine(line), IF IsCollectionLine(line) THEN CollectionType(line) ELSE <<>>)

\* line 191
PropertyOfTrimmed(line) == IF line = <<>> \/ line = sOpenBrace \/ line = sCloseBrace \/ line = sAggregateRoot THEN <<>> ELSE PropertyOf(line)

\* parseProperty(line): <<>> stands for null, <<p>> for the property p
parseProperty(rawLine) == PropertyOfTrimmed(trim(StripComment(rawLine)))

\* ------------------------------------------------------------------------
\* cml-parser: parseCML
\* ------------------------------------------------------------------------

\* A cursor of parseCML (currentAggregate, currentEntity, currentValueObject,
\* currentEnum) is a reference: null, an object that hangs in the tree under
\* boundedContexts (at context bc, aggregate ag, position ix of its list), or
\* an object that was created but pushed nowhere the result can reach.
NullRef == [ref |-> "null", bc |-> 0, ag |-> 0, ix |-> 0]

DetachedRef == [ref |-> "detached", bc |-> 0, ag |-> 0, ix |-> 0]

TreeRef(b, a, x) == [ref |-> "tree", bc |-> b, ag |-> a, ix |-> x]

\* the locals of parseCML declared before the loop
InitialParserState ==
    [boundedContexts |-> <<>>,
     currentBoundedContext |-> 0,
     currentAggregate |-> NullRef,
     currentEntity |-> NullRef,
     currentValueObject |-> NullRef,
     currentEnum |-> NullRef,
     threw |-> FALSE]

\* content.split('\n').map(line => line.trim()).filter(line => line && !line.startsWith('//')),
\* the content given as the list of its '\n'-separated lines
KeepLogical(line) == IF line # <<>> /\ ~startsWith(line, <<"/", "/">>) THEN <<line>> ELSE <<>>

RECURSIVE LogicalLines(_)
LogicalLines(raw) ==
    IF raw = <<>>
    THEN <<>>
    ELSE KeepLogical(trim(Head(raw))) \o LogicalLines(Tail(raw))

\* if (line.startsWith('BoundedContext ')) { ... }
BoundedContextBranch(s, line) ==
    [s EXCEPT !.boundedContexts = Append(@, [name |-> MatchName(line, kwBoundedContext), aggregates |-> <<>>]),
              !.currentBoundedContext = Len(s.boundedContexts) + 1]

\* the branch without its test of currentBoundedContext: the push onto the
\* aggregates of null raises a TypeError
AggregateBranchUnguarded(s, line) ==
    LET aggregate == [name |-> MatchName(line, kwAggregate), entities |-> <<>>, valueObjects |-> <<>>, enums |-> <<>>]
        b == s.currentBoundedContext
    IN  IF b # 0
        THEN [s EXCEPT !.boundedContexts[b].aggregates = Append(@, aggregate),
                       !.currentAggregate = TreeRef(b, Len(s.boundedContexts[b].aggregates) + 1, 0)]
        ELSE [s EXCEPT !.threw = TRUE]

\* if (line.startsWith('Aggregate ')) { ... }
AggregateBranch(s, line) ==
    LET aggregate == [name |-> MatchName(line, kwAggregate), entities |-> <<>>, valueObjects |-> <<>>, enums |-> <<>>]
        b == s.currentBoundedContext
    IN  IF b # 0
        THEN [s EXCEPT !.boundedContexts[b].aggregates = Append(@, aggregate),
                       !.currentAggregate = TreeRef(b, Len(s.boundedContexts[b].aggregates) + 1, 0)]
        ELSE [s EXCEPT !.currentAggregate = DetachedRef]

\* if (line.startsWith('Entity ')) { ... }
EntityBranch(s, line) ==
    LET entity == [name |-> MatchName(line, kwEntity), isAggregateRoot |-> FALSE, properties |-> <<>>]
        a == s.currentAggregate
    IN  IF a.ref = "tree"
        THEN [s EXCEPT !.boundedContexts[a.bc].aggregates[a.ag].entities = Append(@, entity),
                       !.currentEntity = TreeRef(a.bc, a.ag, Len(s.boundedContexts[a.bc].aggregates[a.ag].entities) + 1)]
        ELSE [s EXCEPT !.currentEntity = DetachedRef]

\* if (line.startsWith('ValueObject ')) { ... }
ValueObjectBranch(s, line) ==
    LET valueObject == [name |-> MatchName(line, kwValueObject), properties |-> <<>>]
        a == s.currentAggregate
    IN  IF a.ref = "tree"
        THEN [s EXCEPT !.boundedContexts[a.bc].aggregates[a.ag].valueObjects = Append(@, valueObject),
                       !.currentValueObject = TreeRef(a.bc, a.ag, Len(s.boundedContexts[a.bc].aggregates[a.ag].valueObjects) + 1)]
        ELSE [s EXCEPT !.currentValueObject = DetachedRef]

\* if (line.startsWith('enum ')) { ... }
EnumBranch(s, line) ==
    LET enumDef == [name |-> MatchName(line, kwEnum), values |-> <<>>]
        a == s.currentAggregate
    IN  IF a.ref = "tree"
        THEN [s EXCEPT !.boundedContexts[a.bc].aggregates[a.ag].enums = Append(@, enumDef),
                       !.currentEnum = TreeRef(a.bc, a.ag, Len(s.boundedContexts[a.bc].aggregates[a.ag].enums) + 1)]
        ELSE [s EXCEPT !.currentEnum = DetachedRef]

\* the branch closing one cursor only: the enumeration, else the value
\* object, else the entity
ClosingBraceBranchFirstOpen(s, line) ==
    IF s.currentEnum # NullRef THEN [s EXCEPT !.currentEnum = NullRef]
    ELSE IF s.currentValueObject # NullRef THEN [s EXCEPT !.currentValueObject = NullRef]
    ELSE [s EXCEPT !.currentEntity = NullRef]

\* the branch closing the enumeration and the value object but not the entity
ClosingBraceBranchKeepingEntity(s, line) ==
    [s EXCEPT !.currentEnum = NullRef, !.currentValueObject = NullRef]

\* if (line === '}' || line.endsWith('}')) { ... }: the three cursors are
\* reset; the look-ahead at the remaining lines has an empty body
ClosingBraceBranch(s, line) ==
    [s EXCEPT !.currentEnum = NullRef, !.currentValueObject = NullRef, !.currentEntity = NullRef]

\* v => v.trim().replace(/[;,\/\/].*$/, '').trim() over cleanLine.split(','),
\* then .filter(v => v && v !== '}')
KeepValue(v) == IF v # <<>> /\ v # sCloseBrace THEN <<v>> ELSE <<>>

RECURSIVE CleanValues(_)
CleanValues(pieces) ==
    IF pieces = <<>>
    THEN <<>>
    ELSE KeepValue(trim(CutAtSeparator(trim(Head(pieces))))) \o CleanValues(Tail(pieces))

\* lines 154-157: the value of a line without comma
SingleValue(value) == IF value # <<>> /\ value # sCloseBrace /\ ~includes(value, sEnumWord) THEN <<value>> ELSE <<>>

\* lines 147-158, cleanLine being the line without comment, trimmed
ValuesOfClean(cleanLine) ==
    IF cleanLine # <<>> /\ cleanLine # sCloseBrace /\ ~startsWith(cleanLine, kwEnum)
    THEN IF includes(cleanLine, <<",">>)
         THEN CleanValues(split(cleanLine, ","))
         ELSE SingleValue(trim(CutAtSeparator(cleanLine)))
    ELSE <<>>

\* the values an enum body line contributes (lines 146-158)
EnumValuesOf(line) == ValuesOfClean(trim(StripComment(line)))

\* if (line && currentEnum) { ... }
EnumValueBranch(s, line) ==
    LET e == s.currentEnum
    IN  IF e.ref = "tree"
        THEN [s EXCEPT !.boundedContexts[e.bc].aggregates[e.ag].enums[e.ix].values = @ \o EnumValuesOf(line)]
        ELSE s

\* if (line === 'aggregateRoot' && currentEntity) { ... }
AggregateRootBranch(s, line) ==
    LET e == s.currentEntity
    IN  IF e.ref = "tree"
        THEN [s EXCEPT !.boundedContexts[e.bc].aggregates[e.ag].entities[e.ix].isAggregateRoot = TRUE]
        ELSE s

\* if (line && currentEntity) { ... }
EntityPropertyStep(s, line) ==
    LET e == s.currentEntity
    IN  IF e.ref = "tree"
        THEN [s EXCEPT !.boundedContexts[e.bc].aggregates[e.ag].entities[e.ix].properties = @ \o parseProperty(line)]
        ELSE s

\* if (line && currentValueObject) { ... }
ValueObjectPropertyStep(s, line) ==
    LET v == s.currentValueObject
    IN  IF v.ref = "tree"
        THEN [s EXCEPT !.boundedContexts[v.bc].aggregates[v.ag].valueObjects[v.ix].properties = @ \o parseProperty(line)]
        ELSE s

\* lines 169-182: the two property tests, one after the other
PropertyBranch(s, line) == ValueObjectPropertyStep(EntityPropertyStep(s, line), line)

\* which test of the loop body a logical line reaches first
BranchOf(s, line) ==
    IF startsWith(line, kwBoundedContext) THEN "BoundedContext"
    ELSE IF startsWith(line, kwAggregate) THEN "Aggregate"
    ELSE IF startsWith(line, kwEntity) THEN "Entity"
    ELSE IF startsWith(line, kwValueObject) THEN "ValueObject"
    ELSE IF startsWith(line, kwEnum) THEN "enum"
    ELSE IF line = sCloseBrace \/ endsWith(line, sCloseBrace) THEN "ClosingBrace"
    ELSE IF s.currentEnum.ref # "null" THEN "EnumValue"
    ELSE IF line = sAggregateRoot /\ s.currentEntity.ref # "null" THEN "aggregateRoot"
    ELSE "Property"

\* the branch taken, applied
Dispatch(s, line, branch) ==
    CASE branch = "BoundedContext" -> BoundedContextBranch(s, line)
      [] branch = "Aggregate" -> AggregateBranch(s, line)
      [] branch = "Entity" -> EntityBranch(s, line)
      [] branch = "ValueObject" -> ValueObjectBranch(s, line)
      [] branch = "enum" -> EnumBranch(s, line)
      [] branch = "ClosingBrace" -> ClosingBraceBranch(s, line)
      [] branch = "EnumValue" -> EnumValueBranch(s, line)
      [] branch = "aggregateRoot" -> AggregateRootBranch(s, line)
      [] OTHER -> PropertyBranch(s, line)

\* one iteration of the for loop on logical line `line`
LoopBody(s, line) == Dispatch(s, line, BranchOf(s, line))

\* the for loop over the logical lines
RECURSIVE ParseLines(_, _)
ParseLines(s, lines) ==
    IF lines = <<>> \/ s.threw THEN s ELSE ParseLines(LoopBody(s, Head(lines)), Tail(lines))

\* parseCML(content), content given as the list of its '\n'-separated lines
parseCML(content) == [boundedContexts |-> ParseLines(InitialParserState, LogicalLines(content)).boundedContexts]

\* ------------------------------------------------------------------------
\* Input texts
\* ------------------------------------------------------------------------

sSales == <<"S", "a", "l", "e", "s">>

sCrm == <<"C", "r", "m">>

sOrder == <<"O", "r", "d", "e", "r">>

sCart == <<"C", "a", "r", "t">>

sMoney == <<"M", "o", "n", "e", "y">>

sStatus == <<"S", "t", "a", "t", "u", "s">>

sLines == <<"l", "i", "n", "e", "s">>

sOrderLine == <<"O", "r", "d", "e", "r", "L", "i", "n", "e">>

sName == <<"n", "a", "m", "e">>

sNote == <<"n", "o", "t", "e">>

sString == <<"S", "t", "r", "i", "n", "g">>

sActive == <<"A", "c", "t", "i", "v", "e">>

sInactive == <<"I", "n", "a", "c", "t", "i", "v", "e">>

sPendingReview == <<"p", "e", "n", "d", "i", "n", "g", "-", "r", "e", "v", "i", "e", "w">>

sOpen == <<"O", "p", "e", "n">>

sEnumerated == <<"e", "n", "u", "m", "e", "r", "a", "t", "e", "d">>

sClosed == <<"C", "l", "o", "s", "e", "d">>

sDraft == <<"D", "r", "a", "f", "t">>

sOpenTail == <<" ", "{">>

\* "BoundedContext Sales {"
lnSales == kwBoundedContext \o sSales \o sOpenTail

\* "BoundedContext Crm {"
lnCrm == kwBoundedContext \o sCrm \o sOpenTail

\* "  Aggregate Order {"
lnOrder == <<" ", " ">> \o kwAggregate \o sOrder \o sOpenTail

\* "  Aggregate Cart {"
lnCart == <<" ", " ">> \o kwAggregate \o sCart \o sOpenTail

\* "    Entity Order {"
lnEntity == <<" ", " ", " ", " ">> \o kwEntity \o sOrder \o sOpenTail

\* "    ValueObject Money {"
lnValueObject == <<" ", " ", " ", " ">> \o kwValueObject \o sMoney \o sOpenTail

\* "    enum Status {"
lnEnum == <<" ", " ", " ", " ">> \o kwEnum \o sStatus \o sOpenTail

\* "      aggregateRoot"
lnRoot == <<" ", " ", " ", " ", " ", " ">> \o sAggregateRoot

\* "      - Set<OrderLine> lines"
lnLines == <<" ", " ", " ", " ", " ", " ", "-", " ">> \o sSetOpen \o sOrderLine \o <<">", " ">> \o sLines

\* "      String name;"
lnName == <<" ", " ", " ", " ", " ", " ">> \o sString \o <<" ">> \o sName \o <<";">>

\* "      nullable String note"
lnNote == <<" ", " ", " ", " ", " ", " ">> \o sNullable \o <<" ">> \o sString \o <<" ">> \o sNote

\* "      Active, Inactive, pending-review"
lnLabels == <<" ", " ", " ", " ", " ", " ">> \o sActive \o <<",", " ">> \o sInactive \o <<",", " ">> \o sPendingReview

\* "      Open ,enumerated,,  Closed"
lnSpaced == <<" ", " ", " ", " ", " ", " ">> \o sOpen \o <<" ", ",">> \o sEnumerated \o <<",", ",", " ", " ">> \o sClosed

\* "      Draft"
lnDraft == <<" ", " ", " ", " ", " ", " ">> \o sDraft

\* "  }"
lnClose == <<" ", " ", "}">>

\* "  // a note"
lnComment == <<" ", " ", "/", "/", " ", "a", " ", "n", "o", "t", "e">>

\* "      N/A, Other"
lnSlashed == <<" ", " ", " ", " ", " ", " ", "N", "/", "A", ",", " ", "O", "t", "h", "e", "r">>

sN == <<"N">>

sNA == <<"N", "/", "A">>

sOther == <<"O", "t", "h", "e", "r">>
sAt == <<"@", "@">>

sQuestion == <<"?", "?">>

\* "Entity {": a declaration without a name
lnEntityNoName == kwEntity \o sOpenBrace

\* "String": a body line with one token
lnOneToken == sString

\* "@@ ??": matches no form of the grammar
lnJunk == sAt \o <<" ">> \o sQuestion

\* "Active, Inactive }": a body line that ends with the brace
lnBraceEnd == sActive \o <<",", " ">> \o sInactive \o <<" ", "}">>

\* "   ": a blank line
lnBlank == <<" ", " ", " ">>

\* the lines a text given to parseCML is made of, well formed or not
\* "      enumerated": a body line of one label
lnEnumerated == <<" ", " ", " ", " ", " ", " ">> \o sEnumerated

AnyLines == {lnSales, lnOrder, lnEntity, lnValueObject, lnEnum, lnClose, lnRoot, lnLines, lnLabels, lnEntityNoName, lnJunk, lnComment, lnEnumerated}

\* longest text, in lines, given to parseCML
MaxLines == 4

\* the lines of the well-nested texts, each with what it declares (for a
\* line of labels, the values parseCML reads from it)
NestedCatalogue ==
    {[text |-> lnSales, kind |-> "context", name |-> sSales, props |-> <<>>, values |-> <<>>],
     [text |-> lnCrm, kind |-> "context", name |-> sCrm, props |-> <<>>, values |-> <<>>],
     [text |-> lnOrder, kind |-> "aggregate", name |-> sOrder, props |-> <<>>, values |-> <<>>],
     [text |-> lnCart, kind |-> "aggregate", name |-> sCart, props |-> <<>>, values |-> <<>>],
     [text |-> lnEntity, kind |-> "entity", name |-> sOrder, props |-> <<>>, values |-> <<>>],
     [text |-> lnValueObject, kind |-> "valueObject", name |-> sMoney, props |-> <<>>, values |-> <<>>],
     [text |-> lnEnum, kind |-> "enum", name |-> sStatus, props |-> <<>>, values |-> <<>>],
     [text |-> lnRoot, kind |-> "root", name |-> <<>>, props |-> <<>>, values |-> <<>>],
     [text |-> lnLines, kind |-> "property", name |-> <<>>, values |-> <<>>,
      props |-> <<[name |-> sLines, type |-> sOrderLine, nullable |-> FALSE, isRelation |-> TRUE, isCollection |-> TRUE, isEnum |-> FALSE]>>],
     [text |-> lnName, kind |-> "property", name |-> <<>>, values |-> <<>>,
      props |-> <<[name |-> sName, type |-> sString, nullable |-> FALSE, isRelation |-> FALSE, isCollection |-> FALSE, isEnum |-> FALSE]>>],
     [text |-> lnLabels, kind |-> "values", name |-> <<>>, props |-> <<>>, values |-> <<sActive, sInactive, sPendingReview>>],
     [text |-> lnSpaced, kind |-> "values", name |-> <<>>, props |-> <<>>, values |-> <<sOpen, sEnumerated, sClosed>>],
     [text |-> lnSlashed, kind |-> "values", name |-> <<>>, props |-> <<>>, values |-> <<sN, sOther>>],
     [text |-> lnClose, kind |-> "close", name |-> <<>>, props |-> <<>>, values |-> <<>>],
     [text |-> lnComment, kind |-> "skip", name |-> <<>>, props |-> <<>>, values |-> <<>>]}

NestedLines == {e.text : e \in NestedCatalogue}

Entry(raw) == CHOOSE e \in NestedCatalogue : e.text = raw

\* longest well-nested text, in lines
MaxNestedLines == 8

\* the scopes left open by a well-nested text, outermost first
RECURSIVE OpenScopes(_)
OpenScopes(text) ==
    IF text = <<>>
    THEN <<>>
    ELSE LET before == OpenScopes(SubSeq(text, 1, Len(text) - 1))
             kind == Entry(text[Len(text)]).kind
         IN  IF kind \in {"context", "aggregate", "entity", "valueObject", "enum"} THEN Append(before, kind)
             ELSE IF kind = "close" THEN SubSeq(before, 1, Len(before) - 1)
             ELSE before

\* the grammar of well-nested texts: which line may follow in which scope
MayFollow(scopes, kind) ==
    LET inner == IF scopes = <<>> THEN "top" ELSE scopes[Len(scopes)]
    IN  \/ kind = "skip" /\ inner = "top"
        \/ kind = "context" /\ inner = "top"
        \/ kind = "aggregate" /\ inner = "context"
        \/ kind \in {"entity", "valueObject", "enum"} /\ inner = "aggregate"
        \/ kind = "root" /\ inner = "entity"
        \/ kind = "property" /\ inner \in {"entity", "valueObject"}
        \/ kind = "values" /\ inner = "enum"
        \/ kind = "close" /\ inner # "top"

Fits(text, raw) == MayFollow(OpenScopes(text), Entry(raw).kind)

\* every scope of the text is closed by its own brace line
WellNested(text) == OpenScopes(text) = <<>>

\* ------------------------------------------------------------------------
\* php-generator: literals
\* ------------------------------------------------------------------------

sAppModels == <<"A", "p", "p", "\\", "M", "o", "d", "e", "l", "s">>

sPhpExtension == <<".", "p", "h", "p">>

sEnumFolder == <<"E", "n", "u", "m", "/">>

sValueObjectFolder == <<"V", "a", "l", "u", "e", "O", "b", "j", "e", "c", "t", "/">>

sEntityFolder == <<"E", "n", "t", "i", "t", "y", "/">>

tMixed == <<"m", "i", "x", "e", "d">>

tArray == <<"a", "r", "r", "a", "y">>

tDoctrineCollection == <<"D", "o", "c", "t", "r", "i", "n", "e", "\\", "C", "o", "m", "m", "o", "n", "\\", "C", "o", "l", "l", "e", "c", "t", "i", "o", "n", "s", "\\", "C", "o", "l", "l", "e", "c", "t", "i", "o", "n">>

tEloquentCollection == <<"I", "l", "l", "u", "m", "i", "n", "a", "t", "e", "\\", "D", "a", "t", "a", "b", "a", "s", "e", "\\", "E", "l", "o", "q", "u", "e", "n", "t", "\\", "C", "o", "l", "l", "e", "c", "t", "i", "o", "n">>

tString == <<"s", "t", "r", "i", "n", "g">>

tInt == <<"i", "n", "t">>

tInteger == <<"i", "n", "t", "e", "g", "e", "r">>

tBool == <<"b", "o", "o", "l">>

tBoolean == <<"b", "o", "o", "l", "e", "a", "n">>

tFloat == <<"f", "l", "o", "a", "t">>

tDouble == <<"d", "o", "u", "b", "l", "e">>

tDatetime == <<"d", "a", "t", "e", "t", "i", "m", "e">>

tDate == <<"d", "a", "t", "e">>

tClob == <<"c", "l", "o", "b">>

tText == <<"t", "e", "x", "t">>

tJson == <<"j", "s", "o", "n">>

tPhpDateTime == <<"\\", "D", "a", "t", "e", "T", "i", "m", "e">>

tSelf == <<"s", "e", "l", "f">>

tHasMany == <<"I", "l", "l", "u", "m", "i", "n", "a", "t", "e", "\\", "D", "a", "t", "a", "b", "a", "s", "e", "\\", "E", "l", "o", "q", "u", "e", "n", "t", "\\", "R", "e", "l", "a", "t", "i", "o", "n", "s", "\\", "H", "a", "s", "M", "a", "n", "y">>

tBelongsTo == <<"I", "l", "l", "u", "m", "i", "n", "a", "t", "e", "\\", "D", "a", "t", "a", "b", "a", "s", "e", "\\", "E", "l", "o", "q", "u", "e", "n", "t", "\\", "R", "e", "l", "a", "t", "i", "o", "n", "s", "\\", "B", "e", "l", "o", "n", "g", "s", "T", "o">>

sGet == <<"g", "e", "t">>

sSet == <<"s", "e", "t">>

sConstruct == <<"_", "_", "c", "o", "n", "s", "t", "r", "u", "c", "t">>

sTrue == <<"t", "r", "u", "e">>

sFalse == <<"f", "a", "l", "s", "e">>

sId == <<"i", "d">>

\* ------------------------------------------------------------------------
\* php-generator: configuration, paths, names, types
\* ------------------------------------------------------------------------

\* A GeneratorConfig.  An optional boolean the code only tests for truth is
\* a BOOLEAN (absent = FALSE); doctrineAttributes, compared with false, is
\* "undefined", "true" or "false"; directoryStructure and phpVersion are
\* "undefined" or one of their literals; namespace is <<>> when absent or
\* empty; regexPatternMappings is <<>> when absent or empty.
DefaultConfig ==
    [framework |-> "plain",
     publicProperties |-> FALSE,
     addGetters |-> TRUE,
     addSetters |-> TRUE,
     namespace |-> sAppModels,
     constructorType |-> "none",
     constructorPropertyPromotion |-> FALSE,
     doctrineCollectionDocstrings |-> FALSE,
     doctrineAttributes |-> "undefined",
     arrayDocstrings |-> FALSE,
     directoryStructure |-> "undefined",
     groupByType |-> FALSE,
     phpVersion |-> "undefined",
     readonlyValueObjects |-> FALSE,
     regexPatternMappings |-> <<>>]

\* config.directoryStructure || 'flat'
DirectoryStructureOf(config) == IF config.directoryStructure = "undefined" THEN "flat" ELSE config.directoryStructure

\* parseFloat(config.phpVersion), in tenths
ParseFloatTenths(version) ==
    CASE version = "8.1" -> 81
      [] version = "8.2" -> 82
      [] version = "8.3" -> 83
      [] version = "8.4" -> 84

getDirectoryPath(boundedContextName, aggregateName, structure) ==
    CASE structure = "flat" -> <<>>
      [] structure = "bounded-context" -> boundedContextName
      [] structure = "aggregate" -> boundedContextName \o <<"/">> \o aggregateName
      [] structure = "psr-4" -> boundedContextName \o <<"/">> \o aggregateName
      [] OTHER -> <<>>

\* A pattern of a RegexPatternMapping is modelled for the sources of the
\* form [^]literal[$], the literal made of word characters; a source with
\* unbalanced parentheses or brackets does not compile.
CountChar(s, c) == Cardinality({k \in DOMAIN s : s[k] = c})

\* new RegExp(source) throws
RegExpThrows(source) == CountChar(source, "(") # CountChar(source, ")") \/ CountChar(source, "[") # CountChar(source, "]")

AnchoredAtStart(source) == startsWith(source, <<"^">>)

AnchoredAtEnd(source) == source # <<>> /\ source[Len(source)] = "$"

PatternLiteral(source) == SubSeq(source, IF AnchoredAtStart(source) THEN 2 ELSE 1, IF AnchoredAtEnd(source) THEN Len(source) - 1 ELSE Len(source))

\* the positions of s where the literal matches under the anchors
MatchesOf(s, literal, atStart, atEnd) ==
    {k \in 1..(Len(s) + 1) : OccursAt(s, literal, k) /\ (atStart => k = 1) /\ (atEnd => k + Len(literal) = Len(s) + 1)}

\* new RegExp(source).test(s)
RegExpTest(source, s) == MatchesOf(s, PatternLiteral(source), AnchoredAtStart(source), AnchoredAtEnd(source)) # {}

\* s without the literal found at position k
CutOut(s, k, n) == Take(s, k - 1) \o DropTo(s, k + n)

RemoveFirstMatch(s, literal, matches) == IF matches = {} THEN s ELSE CutOut(s, CHOOSE k \in matches : \A j \in matches : k <= j, Len(literal))

\* s.replace(new RegExp(source), '')
RegExpRemove(source, s) == RemoveFirstMatch(s, PatternLiteral(source), MatchesOf(s, PatternLiteral(source), AnchoredAtStart(source), AnchoredAtEnd(source)))

NoMapping == [subfolder |-> <<>>, nameReplace |-> <<>>]

\* the catch branch falling through to the return instead of going on
MappingAppliesWhenBroken(mapping, filename, fileType) ==
    /\ ~(mapping.typeFolder # "" /\ mapping.typeFolder # fileType)
    /\ ~(mapping.pattern = <<>> \/ mapping.subfolder = <<>>)
    /\ RegExpThrows(mapping.pattern) \/ RegExpTest(mapping.pattern, filename)

\* one pass of the loop of getSubfolderForFile: the mapping applies
MappingApplies(mapping, filename, fileType) ==
    /\ ~(mapping.typeFolder # "" /\ mapping.typeFolder # fileType)
    /\ ~(mapping.pattern = <<>> \/ mapping.subfolder = <<>>)
    /\ ~RegExpThrows(mapping.pattern)
    /\ RegExpTest(mapping.pattern, filename)

\* the loop going on after a match, so that the last rule that applies wins
RECURSIVE getSubfolderForFileLastWins(_, _, _)
getSubfolderForFileLastWins(filename, fileType, mappings) ==
    IF mappings = <<>>
    THEN NoMapping
    ELSE IF getSubfolderForFileLastWins(filename, fileType, Tail(mappings)) # NoMapping
         THEN getSubfolderForFileLastWins(filename, fileType, Tail(mappings))
         ELSE IF MappingApplies(Head(mappings), filename, fileType)
              THEN [subfolder |-> Head(mappings).subfolder, nameReplace |-> Head(mappings).nameReplace]
              ELSE NoMapping

RECURSIVE getSubfolderForFile(_, _, _)
getSubfolderForFile(filename, fileType, mappings) ==
    IF mappings = <<>>
    THEN NoMapping
    ELSE IF MappingApplies(Head(mappings), filename, fileType)
         THEN [subfolder |-> Head(mappings).subfolder, nameReplace |-> Head(mappings).nameReplace]
         ELSE getSubfolderForFile(filename, fileType, Tail(mappings))

applyNameReplace(filename, nameReplace) ==
    IF nameReplace = <<>> THEN filename
    ELSE IF RegExpThrows(nameReplace) THEN filename
    ELSE RegExpRemove(nameReplace, filename)

\* s.replace(/\/+$/, '')
RECURSIVE StripTrailingSlashes(_)
StripTrailingSlashes(s) == IF s # <<>> /\ s[Len(s)] = "/" THEN StripTrailingSlashes(SubSeq(s, 1, Len(s) - 1)) ELSE s

\* the path joined without cleaning the folders
buildFilePathKeepingSlashes(basePath, typeFolder, subfolder, filename) ==
    join(NonEmpty(<<basePath, typeFolder, subfolder, filename>>), "/")

buildFilePath(basePath, typeFolder, subfolder, filename) ==
    join(NonEmpty(<<basePath, StripTrailingSlashes(typeFolder), StripTrailingSlashes(subfolder), filename>>), "/")

\* str.replace(/([A-Z])/g, '_$1')
RECURSIVE UnderscoreCapitals(_)
UnderscoreCapitals(s) ==
    IF s = <<>> THEN <<>>
    ELSE (IF Head(s) \in UpperSet THEN <<"_", Head(s)>> ELSE <<Head(s)>>) \o UnderscoreCapitals(Tail(s))

DropLeadingUnderscore(s) == IF startsWith(s, <<"_">>) THEN Tail(s) ELSE s

toSnakeCase(str) == DropLeadingUnderscore(toLowerCase(UnderscoreCapitals(str)))

getInversePropertyName(entityName) == toSnakeCase(entityName)

\* str.charAt(0).toUpperCase() + str.slice(1)
capitalize(str) == IF str = <<>> THEN <<>> ELSE <<ToUpperChar(Head(str))>> \o Tail(str)

\* the namespace derived from the names under psr-4 only
NamespaceUnderPsr4Only(namespace, structure, boundedContextName, aggregateName) ==
    IF structure = "psr-4" /\ boundedContextName # <<>> /\ aggregateName # <<>>
    THEN namespace \o <<"\\">> \o boundedContextName \o <<"\\">> \o aggregateName
    ELSE namespace

\* the namespace of a unit: the prefix, then the segments its directory structure adds
NamespaceUnder(namespace, structure, boundedContextName, aggregateName) ==
    IF structure \in {"psr-4", "aggregate"} /\ boundedContextName # <<>> /\ aggregateName # <<>>
    THEN namespace \o <<"\\">> \o boundedContextName \o <<"\\">> \o aggregateName
    ELSE IF structure = "bounded-context" /\ boundedContextName # <<>>
         THEN namespace \o <<"\\">> \o boundedContextName
         ELSE namespace

buildNamespace(config, boundedContextName, aggregateName) ==
    NamespaceUnder(IF config.namespace # <<>> THEN config.namespace ELSE sAppModels, DirectoryStructureOf(config), boundedContextName, aggregateName)

\* the test without its upper limit
shouldApplyReadonlyPropertyFrom81(config) ==
    /\ config.readonlyValueObjects
    /\ config.phpVersion # "undefined"
    /\ ParseFloatTenths(config.phpVersion) >= 81

shouldApplyReadonlyProperty(config) ==
    /\ config.readonlyValueObjects
    /\ config.phpVersion # "undefined"
    /\ ParseFloatTenths(config.phpVersion) >= 81
    /\ ParseFloatTenths(config.phpVersion) < 82

\* the primitive types of mapTypeToPHP, by lower-cased name
PrimitiveToPHP(propType, lowerType) ==
    IF lowerType = tString THEN tString
    ELSE IF lowerType = tInt \/ lowerType = tInteger THEN tInt
    ELSE IF lowerType = tBool \/ lowerType = tBoolean THEN tBool
    ELSE IF lowerType = tFloat \/ lowerType = tDouble THEN tFloat
    ELSE IF lowerType = tDatetime THEN tPhpDateTime
    ELSE IF lowerType = tDate THEN tPhpDateTime
    ELSE IF lowerType = tClob THEN tString
    ELSE propType

\* the primitive types tested before the collection flag
mapTypeToPHPPrimitivesFirst(config, prop) ==
    IF prop.type = <<>> \/ trim(prop.type) = <<>> THEN tMixed
    ELSE IF PrimitiveToPHP(<<>>, toLowerCase(prop.type)) # <<>>
         THEN PrimitiveToPHP(prop.type, toLowerCase(prop.type))
         ELSE IF prop.isCollection
              THEN IF prop.isRelation /\ config.framework = "doctrine" THEN tDoctrineCollection
                   ELSE IF prop.isRelation /\ config.framework = "laravel" THEN tEloquentCollection
                   ELSE tArray
              ELSE prop.type

mapTypeToPHP(config, prop) ==
    IF prop.type = <<>> \/ trim(prop.type) = <<>> THEN tMixed
    ELSE IF prop.isCollection
         THEN IF prop.isRelation /\ config.framework = "doctrine" THEN tDoctrineCollection
              ELSE IF prop.isRelation /\ config.framework = "laravel" THEN tEloquentCollection
              ELSE tArray
         ELSE PrimitiveToPHP(prop.type, toLowerCase(prop.type))

DoctrineTypeOf(lowerType) ==
    IF lowerType = tString THEN tString
    ELSE IF lowerType = tInt \/ lowerType = tInteger THEN tInteger
    ELSE IF lowerType = tBool \/ lowerType = tBoolean THEN tBoolean
    ELSE IF lowerType = tFloat \/ lowerType = tDouble THEN tFloat
    ELSE IF lowerType = tDatetime THEN tDatetime
    ELSE IF lowerType = tDate THEN tDate
    ELSE IF lowerType = tClob THEN tText
    ELSE tString

mapDoctrineType(type) == DoctrineTypeOf(toLowerCase(type))

\* ------------------------------------------------------------------------
\* php-generator: the emitted units
\*
\* printer.printFile renders what the builder calls recorded; the content of
\* a file is modelled as that record: for an enum its namespace, name,
\* backing type and cases, for a class its namespace, name, modifiers,
\* comments, attributes, properties and methods, each in the order of the
\* calls.  A method body is the sequence of its statements.
\* ------------------------------------------------------------------------

\* value.replace(/[^a-zA-Z0-9_]/g, '_')
RECURSIVE ReplaceNonWord(_)
ReplaceNonWord(value) ==
    IF value = <<>> THEN <<>>
    ELSE <<IF IsWord(Head(value)) THEN Head(value) ELSE "_">> \o ReplaceNonWord(Tail(value))

\* the case name without the upper-casing
cleanValueKeepingCase(value) == ReplaceNonWord(value)

cleanValue(value) == toUpperCase(ReplaceNonWord(value))

EnumCase(clean) == [name |-> clean, value |-> clean]

EnumCases(values) == [k \in 1..Len(values) |-> EnumCase(cleanValue(values[k]))]

\* nameOverride || unit.name
NameOr(nameOverride, name) == IF nameOverride # <<>> THEN nameOverride ELSE name

generateEnum(enumDef, config, boundedContextName, aggregateName, nameOverride) ==
    [kind |-> "enum",
     strictTypes |-> TRUE,
     namespace |-> NamespaceUnder(IF config.namespace # <<>> THEN config.namespace ELSE sAppModels, DirectoryStructureOf(config), boundedContextName, aggregateName),
     name |-> NameOr(nameOverride, enumDef.name),
     backing |-> tString,
     cases |-> EnumCases(enumDef.values)]

\* the comment addCollectionDocstring adds to its target, if any
ArrayDoc(prop, docType) == [doc |-> docType, of |-> "array<int, T>", type |-> prop.type, name |-> IF docType = "param" THEN prop.name ELSE <<>>]

CollectionDoc(prop, docType) == [doc |-> docType, of |-> "Collection<array-key, T>", type |-> prop.type, name |-> IF docType = "param" THEN prop.name ELSE <<>>]

addCollectionDocstring(prop, docType, config) ==
    IF ~prop.isCollection THEN <<>>
    ELSE IF config.framework = "doctrine"
         THEN IF prop.isRelation /\ config.doctrineCollectionDocstrings THEN <<CollectionDoc(prop, docType)>>
              ELSE IF ~prop.isRelation /\ config.arrayDocstrings THEN <<ArrayDoc(prop, docType)>>
              ELSE <<>>
         ELSE IF config.arrayDocstrings /\ config.framework = "plain" THEN <<ArrayDoc(prop, docType)>>
              ELSE <<>>

setVisibility(isPublic) == IF isPublic THEN "public" ELSE "private"

\* constructor.addParameter / addPromotedParameter, then setupParameter and
\* what follows it in the constructor loops
PlainParameter(prop, config, comments) ==
    [name |-> prop.name, promoted |-> FALSE, type |-> mapTypeToPHP(config, prop), nullable |-> prop.nullable,
     visibility |-> "", readOnly |-> FALSE, comments |-> comments]

PromotedParameter(prop, config, readOnly) ==
    [name |-> prop.name, promoted |-> TRUE, type |-> mapTypeToPHP(config, prop), nullable |-> prop.nullable,
     visibility |-> setVisibility(config.publicProperties), readOnly |-> readOnly,
     comments |-> addCollectionDocstring(prop, "var", config)]

ConstructorParameter(prop, config, readOnly) ==
    IF config.constructorPropertyPromotion
    THEN PromotedParameter(prop, config, readOnly)
    ELSE PlainParameter(prop, config, addCollectionDocstring(prop, "var", config))

ConstructorParameters(props, config, readOnly) == [k \in 1..Len(props) |-> ConstructorParameter(props[k], config, readOnly)]

AssignParam(name) == [op |-> "$this->name = $name;", name |-> name, type |-> <<>>]

NewArrayCollection(name) == [op |-> "$this->name = new \\Doctrine\\Common\\Collections\\ArrayCollection();", name |-> name, type |-> <<>>]

EmptyArray(name) == [op |-> "$this->name = [];", name |-> name, type |-> <<>>]

ReturnProperty(name) == [op |-> "return $this->name;", name |-> name, type |-> <<>>]

ReturnThis == [op |-> "return $this;", name |-> <<>>, type |-> <<>>]

HasMany(type) == [op |-> "return $this->hasMany(type::class);", name |-> <<>>, type |-> type]

BelongsTo(type) == [op |-> "return $this->belongsTo(type::class);", name |-> <<>>, type |-> type]

\* the assignments a constructor without promotion makes, one per parameter
Assignments(props, config) == IF config.constructorPropertyPromotion THEN <<>> ELSE [k \in 1..Len(props) |-> AssignParam(props[k].name)]

Method(name, params, body, returnType, returnNullable, comments) ==
    [name |-> name, visibility |-> "public", params |-> params, body |-> body,
     returnType |-> returnType, returnNullable |-> returnNullable, comments |-> comments]

Getter(prop, config) ==
    Method(sGet \o capitalize(prop.name), <<>>, <<ReturnProperty(prop.name)>>, mapTypeToPHP(config, prop), prop.nullable,
           addCollectionDocstring(prop, "return", config))

Setter(prop, config) ==
    Method(sSet \o capitalize(prop.name), <<PlainParameter(prop, config, <<>>)>>, <<AssignParam(prop.name), ReturnThis>>, tSelf, FALSE,
           addCollectionDocstring(prop, "param", config))

\* one pass of the getter/setter loop
Accessors(prop, config, getters, setters) ==
    (IF getters THEN <<Getter(prop, config)>> ELSE <<>>) \o (IF setters THEN <<Setter(prop, config)>> ELSE <<>>)

RECURSIVE AccessorsOfAll(_, _, _, _)
AccessorsOfAll(props, config, getters, setters) ==
    IF props = <<>> THEN <<>>
    ELSE Accessors(Head(props), config, getters, setters) \o AccessorsOfAll(Tail(props), config, getters, setters)

NamesOf(props) == {props[k].name : k \in DOMAIN props}

RECURSIVE NotNullable(_)
NotNullable(props) ==
    IF props = <<>> THEN <<>>
    ELSE (IF Head(props).nullable THEN <<>> ELSE <<Head(props)>>) \o NotNullable(Tail(props))

RECURSIVE NotNamed(_, _)
NotNamed(props, names) ==
    IF props = <<>> THEN <<>>
    ELSE (IF Head(props).name \in names THEN <<>> ELSE <<Head(props)>>) \o NotNamed(Tail(props), names)

\* the constructor type taken from the configuration alone
configuredConstructorType(config) == config.constructorType

\* config.readonlyValueObjects ? 'all' : config.constructorType
effectiveConstructorType(config) == IF config.readonlyValueObjects THEN "all" ELSE config.constructorType

ValueObjectConstructorProperties(properties, constructorType) ==
    IF constructorType # "none"
    THEN IF constructorType = "required" THEN NotNullable(properties) ELSE properties
    ELSE <<>>

\* the names of the properties the constructor promotes
Promoted(config, constructorType, propertiesForConstructor) ==
    IF config.constructorPropertyPromotion /\ constructorType # "none" THEN NamesOf(propertiesForConstructor) ELSE {}

ValueObjectProperty(prop, config) ==
    [name |-> prop.name, visibility |-> setVisibility(config.publicProperties), type |-> mapTypeToPHP(config, prop),
     nullable |-> prop.nullable, readOnly |-> shouldApplyReadonlyProperty(config),
     comments |-> addCollectionDocstring(prop, "var", config), attributes |-> <<>>]

ValueObjectProperties(props, config) == [k \in 1..Len(props) |-> ValueObjectProperty(props[k], config)]

Constructor(params, body) == Method(sConstruct, params, body, <<>>, FALSE, <<>>)

ValueObjectConstructor(properties, config, constructorType, propertiesForConstructor) ==
    IF constructorType # "none" /\ Len(properties) > 0
    THEN <<Constructor(ConstructorParameters(propertiesForConstructor, config, shouldApplyReadonlyProperty(config)),
                       Assignments(propertiesForConstructor, config))>>
    ELSE <<>>

ValueObjectClass(valueObject, config, namespace, className, constructorType, propertiesForConstructor) ==
    [kind |-> "class",
     strictTypes |-> TRUE,
     namespace |-> namespace,
     name |-> className,
     final |-> TRUE,
     readOnly |-> (config.readonlyValueObjects /\ config.phpVersion # "undefined" /\ ParseFloatTenths(config.phpVersion) >= 82),
     extends |-> "",
     comments |-> <<>>,
     attributes |-> <<>>,
     properties |-> ValueObjectProperties(NotNamed(valueObject.properties, Promoted(config, constructorType, propertiesForConstructor)), config),
     methods |-> ValueObjectConstructor(valueObject.properties, config, constructorType, propertiesForConstructor)
                 \o AccessorsOfAll(valueObject.properties, config, config.addGetters, config.addSetters /\ ~config.readonlyValueObjects)]

generateValueObject(valueObject, config, boundedContextName, aggregateName, nameOverride) ==
    ValueObjectClass(valueObject, config, buildNamespace(config, boundedContextName, aggregateName),
                     NameOr(nameOverride, valueObject.name), effectiveConstructorType(config),
                     ValueObjectConstructorProperties(valueObject.properties, effectiveConstructorType(config)))

Attribute(name, args) == [name |-> name, args |-> args]

Arg(key, text) == [key |-> key, text |-> text]

\* the filter that lets the relations of a laravel entity pass
NotLaravelRelationKeepingAll(props, config) == props

RECURSIVE NotLaravelRelation(_, _)
NotLaravelRelation(props, config) ==
    IF props = <<>> THEN <<>>
    ELSE (IF Head(props).isRelation /\ config.framework = "laravel" THEN <<>> ELSE <<Head(props)>>) \o NotLaravelRelation(Tail(props), config)

EntityConstructorCandidates(properties, config) == IF config.constructorType # "none" THEN NotLaravelRelation(properties, config) ELSE <<>>

propertiesToInclude(properties, config) ==
    IF config.constructorType = "required"
    THEN NotNullable(EntityConstructorCandidates(properties, config))
    ELSE EntityConstructorCandidates(properties, config)

\* the attributes the property loop of generateEntity gives a property
EntityPropertyAttributes(prop, config, entityName) ==
    IF config.framework = "laravel"
    THEN IF prop.name = sId THEN <<Attribute("Illuminate\\Database\\Eloquent\\Casts\\Attribute", <<>>)>> ELSE <<>>
    ELSE IF config.framework = "doctrine" /\ config.doctrineAttributes # "false"
         THEN IF prop.isRelation
              THEN IF prop.isCollection
                   THEN <<Attribute("Doctrine\\ORM\\Mapping\\OneToMany", <<Arg("targetEntity", prop.type), Arg("mappedBy", getInversePropertyName(entityName))>>)>>
                   ELSE <<Attribute("Doctrine\\ORM\\Mapping\\ManyToOne", <<Arg("targetEntity", prop.type)>>)>>
              ELSE IF prop.isCollection
                   THEN <<Attribute("Doctrine\\ORM\\Mapping\\Column", <<Arg("type", tJson), Arg("nullable", IF prop.nullable THEN sTrue ELSE sFalse)>>)>>
                   ELSE <<Attribute("Doctrine\\ORM\\Mapping\\Column", <<Arg("type", mapDoctrineType(prop.type)), Arg("nullable", IF prop.nullable THEN sTrue ELSE sFalse)>>)>>
         ELSE <<>>

\* under doctrine a relation collection is typed Collection and documented again
IsDoctrineRelationCollection(prop, config) == config.framework = "doctrine" /\ prop.isCollection /\ prop.isRelation

EntityProperty(prop, config, entityName) ==
    [name |-> prop.name, visibility |-> setVisibility(config.publicProperties),
     type |-> IF IsDoctrineRelationCollection(prop, config) THEN tDoctrineCollection ELSE mapTypeToPHP(config, prop),
     nullable |-> prop.nullable, readOnly |-> FALSE,
     comments |-> addCollectionDocstring(prop, "var", config)
                  \o (IF IsDoctrineRelationCollection(prop, config) THEN addCollectionDocstring(prop, "var", config) ELSE <<>>),
     attributes |-> EntityPropertyAttributes(prop, config, entityName)]

EntityProperties(props, config, entityName) == [k \in 1..Len(props) |-> EntityProperty(props[k], config, entityName)]

\* the initialisation of relation collections only
CollectionInitOfRelations(prop, includedNames) ==
    IF prop.isCollection /\ prop.isRelation THEN <<NewArrayCollection(prop.name)>> ELSE <<>>

\* one pass of the collection-initialisation loop of a doctrine constructor
CollectionInit(prop, includedNames) ==
    IF prop.isCollection /\ prop.isRelation THEN <<NewArrayCollection(prop.name)>>
    ELSE IF prop.isCollection /\ ~prop.isRelation /\ prop.name \notin includedNames THEN <<EmptyArray(prop.name)>>
    ELSE <<>>

RECURSIVE CollectionInits(_, _)
CollectionInits(props, includedNames) ==
    IF props = <<>> THEN <<>>
    ELSE CollectionInit(Head(props), includedNames) \o CollectionInits(Tail(props), includedNames)

HasCollections(props) == \E k \in DOMAIN props : props[k].isCollection

EntityConstructor(properties, config, included) ==
    IF config.constructorType # "none"
    THEN <<Constructor(ConstructorParameters(included, config, FALSE),
                       (IF config.framework = "doctrine" THEN CollectionInits(properties, NamesOf(included)) ELSE <<>>)
                       \o Assignments(included, config))>>
    ELSE IF config.framework = "doctrine" /\ HasCollections(properties)
         THEN <<Constructor(<<>>, CollectionInits(properties, {}))>>
         ELSE <<>>

RelationMethod(prop) ==
    IF prop.isCollection
    THEN Method(prop.name, <<>>, <<HasMany(prop.type)>>, tHasMany, FALSE, <<>>)
    ELSE Method(prop.name, <<>>, <<BelongsTo(prop.type)>>, tBelongsTo, FALSE, <<>>)

RECURSIVE RelationMethods(_, _)
RelationMethods(props, config) ==
    IF config.framework # "laravel" \/ props = <<>> THEN <<>>
    ELSE (IF Head(props).isRelation THEN <<RelationMethod(Head(props))>> ELSE <<>>) \o RelationMethods(Tail(props), config)

EntityClassAttributes(entity, config) ==
    IF config.framework # "laravel" /\ config.framework = "doctrine" /\ config.doctrineAttributes # "false"
    THEN <<Attribute("Doctrine\\ORM\\Mapping\\Entity", <<>>), Attribute("Doctrine\\ORM\\Mapping\\Table", <<Arg("name", toSnakeCase(entity.name))>>)>>
    ELSE <<>>

EntityClass(entity, config, namespace, className, included) ==
    [kind |-> "class",
     strictTypes |-> TRUE,
     namespace |-> namespace,
     name |-> className,
     final |-> FALSE,
     readOnly |-> FALSE,
     extends |-> IF config.framework = "laravel" THEN "Illuminate\\Database\\Eloquent\\Model" ELSE "",
     comments |-> IF config.framework = "laravel" THEN <<"@property-read int $id">> ELSE <<>>,
     attributes |-> EntityClassAttributes(entity, config),
     properties |-> EntityProperties(NotNamed(NotLaravelRelation(entity.properties, config), Promoted(config, config.constructorType, included)), config, entity.name),
     methods |-> EntityConstructor(entity.properties, config, included)
                 \o AccessorsOfAll(NotLaravelRelation(entity.properties, config), config, config.addGetters, config.addSetters)
                 \o RelationMethods(entity.properties, config)]

generateEntity(entity, config, boundedContextName, aggregateName, nameOverride) ==
    EntityClass(entity, config, buildNamespace(config, boundedContextName, aggregateName),
                NameOr(nameOverride, entity.name), propertiesToInclude(entity.properties, config))

\* ------------------------------------------------------------------------
\* php-generator: generatePHP
\* ------------------------------------------------------------------------

GeneratedFile(filename, path, content, type) == [filename |-> filename, path |-> path, content |-> content, type |-> type]

\* config.regexPatternMappings ? getSubfolderForFile(...) : { subfolder: '' }
MappingResult(originalName, fileType, config) == getSubfolderForFile(originalName, fileType, config.regexPatternMappings)

TypeFolder(config, folder) == IF config.groupByType THEN folder ELSE <<>>

EnumFile(enumDef, config, boundedContextName, aggregateName, directoryPath, subfolder, processedName) ==
    GeneratedFile(processedName \o sPhpExtension,
                  buildFilePath(directoryPath, TypeFolder(config, sEnumFolder), subfolder, processedName \o sPhpExtension),
                  generateEnum(enumDef, config, boundedContextName, aggregateName, processedName),
                  "enum")

EnumFileOf(enumDef, config, boundedContextName, aggregateName, directoryPath, mappingResult) ==
    EnumFile(enumDef, config, boundedContextName, aggregateName, directoryPath, mappingResult.subfolder,
             applyNameReplace(enumDef.name, mappingResult.nameReplace))

ValueObjectFile(valueObject, config, boundedContextName, aggregateName, directoryPath, subfolder, processedName) ==
    GeneratedFile(processedName \o sPhpExtension,
                  buildFilePath(directoryPath, TypeFolder(config, sValueObjectFolder), subfolder, processedName \o sPhpExtension),
                  generateValueObject(valueObject, config, boundedContextName, aggregateName, processedName),
                  "valueobject")

ValueObjectFileOf(valueObject, config, boundedContextName, aggregateName, directoryPath, mappingResult) ==
    ValueObjectFile(valueObject, config, boundedContextName, aggregateName, directoryPath, mappingResult.subfolder,
                    applyNameReplace(valueObject.name, mappingResult.nameReplace))

EntityFile(entity, config, boundedContextName, aggregateName, directoryPath, subfolder, processedName) ==
    GeneratedFile(processedName \o sPhpExtension,
                  buildFilePath(directoryPath, TypeFolder(config, sEntityFolder), subfolder, processedName \o sPhpExtension),
                  generateEntity(entity, config, boundedContextName, aggregateName, processedName),
                  "entity")

EntityFileOf(entity, config, boundedContextName, aggregateName, directoryPath, mappingResult) ==
    EntityFile(entity, config, boundedContextName, aggregateName, directoryPath, mappingResult.subfolder,
               applyNameReplace(entity.name, mappingResult.nameReplace))

\* the three loops over one aggregate with the entities generated first
AggregateFilesEntitiesFirst(aggregate, config, boundedContextName, directoryPath) ==
    [k \in 1..Len(aggregate.entities) |->
        EntityFileOf(aggregate.entities[k], config, boundedContextName, aggregate.name, directoryPath,
                     MappingResult(aggregate.entities[k].name, "Entity", config))]
    \o [k \in 1..Len(aggregate.enums) |->
        EnumFileOf(aggregate.enums[k], config, boundedContextName, aggregate.name, directoryPath,
                   MappingResult(aggregate.enums[k].name, "Enum", config))]
    \o [k \in 1..Len(aggregate.valueObjects) |->
        ValueObjectFileOf(aggregate.valueObjects[k], config, boundedContextName, aggregate.name, directoryPath,
                          MappingResult(aggregate.valueObjects[k].name, "ValueObject", config))]

\* the three loops over one aggregate
AggregateFiles(aggregate, config, boundedContextName, directoryPath) ==
    [k \in 1..Len(aggregate.enums) |->
        EnumFileOf(aggregate.enums[k], config, boundedContextName, aggregate.name, directoryPath,
                   MappingResult(aggregate.enums[k].name, "Enum", config))]
    \o [k \in 1..Len(aggregate.valueObjects) |->
        ValueObjectFileOf(aggregate.valueObjects[k], config, boundedContextName, aggregate.name, directoryPath,
                          MappingResult(aggregate.valueObjects[k].name, "ValueObject", config))]
    \o [k \in 1..Len(aggregate.entities) |->
        EntityFileOf(aggregate.entities[k], config, boundedContextName, aggregate.name, directoryPath,
                     MappingResult(aggregate.entities[k].name, "Entity", config))]

\* the loop over the aggregates leaving after its first pass
AggregatesFilesFirstOnly(aggregates, config, boundedContextName) ==
    IF aggregates = <<>> THEN <<>>
    ELSE AggregateFiles(Head(aggregates), config, boundedContextName,
                        getDirectoryPath(boundedContextName, Head(aggregates).name, DirectoryStructureOf(config)))

RECURSIVE AggregatesFiles(_, _, _)
AggregatesFiles(aggregates, config, boundedContextName) ==
    IF aggregates = <<>> THEN <<>>
    ELSE AggregateFiles(Head(aggregates), config, boundedContextName,
                        getDirectoryPath(boundedContextName, Head(aggregates).name, DirectoryStructureOf(config)))
         \o AggregatesFiles(Tail(aggregates), config, boundedContextName)

RECURSIVE BoundedContextsFiles(_, _)
BoundedContextsFiles(contexts, config) ==
    IF contexts = <<>> THEN <<>>
    ELSE AggregatesFiles(Head(contexts).aggregates, config, Head(contexts).name) \o BoundedContextsFiles(Tail(contexts), config)

\* the files pushed onto a list that starts as `start`
FilesFrom(start, cmlModel, generatorConfig) == start \o BoundedContextsFiles(cmlModel.boundedContexts, generatorConfig)

\* ------------------------------------------------------------------------
\* Sample inputs of the generator: texts, read by parseCML, and configurations
\* ------------------------------------------------------------------------

lnEntityLine == <<" ", " ", " ", " ", "E", "n", "t", "i", "t", "y", " ", "O", "r", "d", "e", "r", "L", "i", "n", "e", " ", "{">>

lnEntityAudit == <<" ", " ", " ", " ", "E", "n", "t", "i", "t", "y", " ", "A", "u", "d", "i", "t", " ", "{">>

lnValueObjectAddress == <<" ", " ", " ", " ", "V", "a", "l", "u", "e", "O", "b", "j", "e", "c", "t", " ", "A", "d", "d", "r", "e", "s", "s", " ", "{">>

lnValueObjectEmpty == <<" ", " ", " ", " ", "V", "a", "l", "u", "e", "O", "b", "j", "e", "c", "t", " ", "M", "a", "r", "k", "e", "r", " ", "{">>

lnEnumKind == <<" ", " ", " ", " ", "e", "n", "u", "m", " ", "K", "i", "n", "d", " ", "{">>

\* an enum with its values on the line of its opener
lnEnumInline == <<" ", " ", " ", " ", "e", "n", "u", "m", " ", "S", "t", "a", "t", "u", "s", " ", "{", " ", "O", "p", "e", "n", ",", " ", "C", "l", "o", "s", "e", "d", " ", "}">>

lnTags == <<" ", " ", " ", " ", " ", " ", "L", "i", "s", "t", "<", "S", "t", "r", "i", "n", "g", ">", " ", "t", "a", "g", "s">>

lnOwner == <<" ", " ", " ", " ", " ", " ", "-", " ", "O", "r", "d", "e", "r", " ", "o", "r", "d", "e", "r">>

lnId == <<" ", " ", " ", " ", " ", " ", "i", "n", "t", " ", "i", "d">>

lnAggregateNoName == <<" ", " ", "A", "g", "g", "r", "e", "g", "a", "t", "e", " ", "{">>

sAudit == <<"A", "u", "d", "i", "t">>

sAddress == <<"A", "d", "d", "r", "e", "s", "s">>

sMarker == <<"M", "a", "r", "k", "e", "r">>

sKind == <<"K", "i", "n", "d">>

sTags == <<"t", "a", "g", "s">>

sOrderField == <<"o", "r", "d", "e", "r">>

rxLineEnd == <<"L", "i", "n", "e", "$">>

rxStartS == <<"^", "S">>

rxBroken == <<"(">>

rxOrder == <<"O", "r", "d", "e", "r">>

dirLines == <<"L", "i", "n", "e", "s", "/">>

dirS == <<"S">>

dirOrders == <<"O", "r", "d", "e", "r", "s">>

nsDomain == <<"D", "o", "m", "a", "i", "n">>

\* the enumerations, value objects and entities a sample aggregate may hold
EnumBlocks ==
    {<<>>,
     <<lnEnum, lnLabels, lnClose>>,
     <<lnEnum, lnClose>>,
     <<lnEnumInline>>,
     <<lnEnumKind, lnSpaced, lnClose, lnEnum, lnLabels, lnDraft, lnClose>>}

ValueObjectBlocks ==
    {<<>>,
     <<lnValueObject, lnName, lnNote, lnClose>>,
     <<lnValueObjectAddress, lnTags, lnLines, lnClose, lnValueObjectEmpty, lnClose, lnValueObject, lnNote, lnClose>>}

EntityBlocks ==
    {<<>>,
     <<lnEntity, lnRoot, lnId, lnLines, lnNote, lnClose>>,
     <<lnEntityLine, lnOwner, lnTags, lnName, lnClose, lnEntityAudit, lnClose, lnEntity, lnLines, lnTags, lnClose>>}

\* one aggregate of one context, with every choice of its units
OneAggregateTexts == {<<lnSales, lnOrder>> \o e \o v \o n \o <<lnClose, lnClose>> : e \in EnumBlocks, v \in ValueObjectBlocks, n \in EntityBlocks}

\* a second aggregate, a second context, an aggregate without a name and a
\* context without aggregates
SecondAggregate == <<lnCart, lnEntityLine, lnOwner, lnClose, lnEnum, lnLabels, lnClose, lnValueObject, lnName, lnClose, lnClose>>

SecondContext == <<lnCrm, lnOrder, lnValueObjectAddress, lnTags, lnClose, lnEntityAudit, lnId, lnClose, lnClose, lnClose>>

ManyAggregateTexts ==
    {<<>>,
     <<lnSales, lnClose>>,
     <<lnSales, lnAggregateNoName, lnEntity, lnName, lnClose, lnEnum, lnDraft, lnClose, lnClose, lnClose>>,
     <<lnSales, lnOrder>> \o <<lnEntity, lnRoot, lnId, lnLines, lnNote, lnClose, lnEnum, lnLabels, lnClose, lnClose>> \o SecondAggregate \o <<lnClose>>,
     <<lnSales, lnOrder>> \o <<lnValueObject, lnName, lnClose, lnEntity, lnLines, lnClose, lnClose>> \o SecondAggregate \o <<lnClose>> \o SecondContext,
     <<lnSales, lnClose>> \o SecondContext}

SampleTexts == OneAggregateTexts \cup ManyAggregateTexts

\* pattern rules: an entity rule that also renames, a rule for every kind
\* with a trailing slash, a pattern that does not compile, a rule without
\* subfolder
SampleRules ==
    <<[pattern |-> rxBroken, typeFolder |-> "", subfolder |-> dirS, nameReplace |-> <<>>],
      [pattern |-> rxLineEnd, typeFolder |-> "Entity", subfolder |-> dirLines, nameReplace |-> rxLineEnd],
      [pattern |-> rxOrder, typeFolder |-> "", subfolder |-> <<>>, nameReplace |-> rxOrder],
      [pattern |-> rxStartS, typeFolder |-> "", subfolder |-> dirS, nameReplace |-> rxBroken]>>

\* a rule that renames a unit to the empty name
EmptyingRules == <<[pattern |-> rxOrder, typeFolder |-> "", subfolder |-> dirOrders, nameReplace |-> rxOrder]>>

\* two complete rules that both match OrderLine
OverlappingRules ==
    <<[pattern |-> rxOrder, typeFolder |-> "", subfolder |-> dirOrders, nameReplace |-> rxOrder],
      [pattern |-> rxLineEnd, typeFolder |-> "Entity", subfolder |-> dirLines, nameReplace |-> rxLineEnd]>>

Frameworks == {"laravel", "doctrine", "plain"}

ConstructorTypes == {"none", "required", "all"}

DirectoryStructures == {"undefined", "flat", "bounded-context", "aggregate", "psr-4"}

PhpVersions == {"undefined", "8.1", "8.2", "8.3", "8.4"}

\* the options generateValueObject reads
ValueObjectConfigs ==
    {[DefaultConfig EXCEPT !.readonlyValueObjects = r, !.phpVersion = v, !.constructorType = t,
                           !.constructorPropertyPromotion = p, !.addSetters = s]
        : r \in BOOLEAN, v \in PhpVersions, t \in ConstructorTypes, p \in BOOLEAN, s \in BOOLEAN}

\* the options that place a file and name its namespace
PathConfigs ==
    {[DefaultConfig EXCEPT !.directoryStructure = d, !.groupByType = g, !.regexPatternMappings = m, !.namespace = n]
        : d \in DirectoryStructures, g \in BOOLEAN, m \in {<<>>, SampleRules, EmptyingRules, OverlappingRules}, n \in {<<>>, nsDomain}}

\* the options generateEntity reads
EntityConfigs ==
    {[DefaultConfig EXCEPT !.framework = f, !.constructorType = t, !.constructorPropertyPromotion = p,
                           !.doctrineAttributes = a, !.doctrineCollectionDocstrings = c, !.arrayDocstrings = c,
                           !.publicProperties = p, !.addGetters = ~c]
        : f \in Frameworks, t \in ConstructorTypes, p \in BOOLEAN, a \in {"undefined", "true", "false"}, c \in BOOLEAN}

SampleConfigs == ValueObjectConfigs \cup PathConfigs \cup EntityConfigs

\* ------------------------------------------------------------------------
\* State
\* ------------------------------------------------------------------------

VARIABLES
    content,                \* the lines of the text read so far by parseCML
    i,                      \* loop index of parseCML: logical lines processed
    pc,                     \* "loop", "done" (parseCML returned), "threw", "generated", "repeated",
                            \* "call" and "returned" around a single call of a helper
    boundedContexts,        \* parseCML: the list under construction
    currentBoundedContext,  \* parseCML: index into boundedContexts, 0 for null
    currentAggregate,       \* parseCML cursors
    currentEntity,
    currentValueObject,
    currentEnum,
    model,                  \* the CMLModel returned by parseCML, given to generatePHP
    config,                 \* the GeneratorConfig given to generatePHP
    files,                  \* the list returned by the last call of generatePHP
    firstFiles,             \* the list returned by the first call of generatePHP
    runs,                   \* calls of generatePHP made
    propertyLine,           \* the line given to a single call of parseProperty
    parsedProperty,         \* what that call returned: <<>> for null, <<p>> for a property
    givenProperty,          \* the property given to a single call of mapTypeToPHP
    phpType                 \* what that call returned

parserVars == <<content, i, boundedContexts, currentBoundedContext, currentAggregate, currentEntity, currentValueObject, currentEnum>>

generatorVars == <<model, config, files, firstFiles, runs>>

helperVars == <<propertyLine, parsedProperty, givenProperty, phpType>>

vars == <<parserVars, pc, generatorVars, helperVars>>

ParserState ==
    [boundedContexts |-> boundedContexts,
     currentBoundedContext |-> currentBoundedContext,
     currentAggregate |-> currentAggregate,
     currentEntity |-> currentEntity,
     currentValueObject |-> currentValueObject,
     currentEnum |-> currentEnum,
     threw |-> FALSE]

\* generatePHP with its list kept between calls instead of created by each
generatePHPOntoFiles(cmlModel, generatorConfig) == FilesFrom(files, cmlModel, generatorConfig)

generatePHP(cmlModel, generatorConfig) == FilesFrom(<<>>, cmlModel, generatorConfig)

\* ------------------------------------------------------------------------
\* parseCML as a loop over the lines of its text
\* ------------------------------------------------------------------------

\* the environment: the text, of at most max lines, goes on with line raw
\* (with nested, only if the text stays well nested)
Offered(raw, max, nested) == nested => Fits(content, raw)

\* a line the filter of line 46 drops
SkipLine(raw, max, nested) ==
    /\ pc = "loop"
    /\ Len(content) < max
    /\ LogicalLines(<<raw>>) = <<>>
    /\ Offered(raw, max, nested)
    /\ content' = Append(content, raw)
    /\ UNCHANGED <<i, pc, boundedContexts, currentBoundedContext, currentAggregate, currentEntity, currentValueObject, currentEnum, generatorVars, helperVars>>

\* the locals of parseCML after an iteration
Install(s) ==
    /\ boundedContexts' = s.boundedContexts
    /\ currentBoundedContext' = s.currentBoundedContext
    /\ currentAggregate' = s.currentAggregate
    /\ currentEntity' = s.currentEntity
    /\ currentValueObject' = s.currentValueObject
    /\ currentEnum' = s.currentEnum
    /\ pc' = IF s.threw THEN "threw" ELSE "loop"

\* one iteration of the loop, on a line that takes the given branch
Iterate(raw, max, nested, branch) ==
    /\ Len(content) < max
    /\ LogicalLines(<<raw>>) # <<>>
    /\ BranchOf(ParserState, trim(raw)) = branch
    /\ Offered(raw, max, nested)
    /\ Install(Dispatch(ParserState, trim(raw), branch))
    /\ i' = i + 1
    /\ content' = Append(content, raw)
    /\ UNCHANGED <<generatorVars, helperVars>>

BoundedContextLine(raw, max, nested) ==
    /\ pc = "loop"
    /\ Iterate(raw, max, nested, "BoundedContext")

AggregateLine(raw, max, nested) ==
    /\ pc = "loop"
    /\ Iterate(raw, max, nested, "Aggregate")

EntityLine(raw, max, nested) ==
    /\ pc = "loop"
    /\ Iterate(raw, max, nested, "Entity")

ValueObjectLine(raw, max, nested) ==
    /\ pc = "loop"
    /\ Iterate(raw, max, nested, "ValueObject")

EnumLine(raw, max, nested) ==
    /\ pc = "loop"
    /\ Iterate(raw, max, nested, "enum")

ClosingBraceLine(raw, max, nested) ==
    /\ pc = "loop"
    /\ Iterate(raw, max, nested, "ClosingBrace")

EnumValueLine(raw, max, nested) ==
    /\ pc = "loop"
    /\ Iterate(raw, max, nested, "EnumValue")

AggregateRootLine(raw, max, nested) ==
    /\ pc = "loop"
    /\ Iterate(raw, max, nested, "aggregateRoot")

PropertyLine(raw, max, nested) ==
    /\ pc = "loop"
    /\ Iterate(raw, max, nested, "Property")

\* the text goes on with line raw
ReadLine(raw, max, nested) ==
    \/ SkipLine(raw, max, nested)
    \/ BoundedContextLine(raw, max, nested)
    \/ AggregateLine(raw, max, nested)
    \/ EntityLine(raw, max, nested)
    \/ ValueObjectLine(raw, max, nested)
    \/ EnumLine(raw, max, nested)
    \/ ClosingBraceLine(raw, max, nested)
    \/ EnumValueLine(raw, max, nested)
    \/ AggregateRootLine(raw, max, nested)
    \/ PropertyLine(raw, max, nested)

\* the loop ends: return { boundedContexts }
Return ==
    /\ pc = "loop"
    /\ pc' = "done"
    /\ model' = [boundedContexts |-> boundedContexts]
    /\ UNCHANGED <<parserVars, config, files, firstFiles, runs, helperVars>>


\* a caller passes the model parseCML returned, and a configuration, to generatePHP
Generate(cfg) ==
    /\ pc = "done"
    /\ config' = cfg
    /\ files' = generatePHP(model, cfg)
    /\ firstFiles' = files'
    /\ runs' = runs + 1
    /\ pc' = "generated"
    /\ UNCHANGED <<parserVars, model, helperVars>>

\* the caller repeats generatePHP(parseCML(text), config) with the same text and configuration
GenerateAgain ==
    /\ pc = "generated"
    /\ model' = parseCML(content)
    /\ files' = generatePHP(model', config)
    /\ runs' = runs + 1
    /\ pc' = "repeated"
    /\ UNCHANGED <<parserVars, config, firstFiles, helperVars>>

\* a caller passes a line to parseProperty
CallParseProperty ==
    /\ pc = "call"
    /\ propertyLine # <<>>
    /\ parsedProperty' = parseProperty(propertyLine)
    /\ pc' = "returned"
    /\ UNCHANGED <<parserVars, generatorVars, propertyLine, givenProperty, phpType>>

\* a caller passes a configuration and a property to mapTypeToPHP
CallMapTypeToPHP ==
    /\ pc = "call"
    /\ propertyLine = <<>>
    /\ phpType' = mapTypeToPHP(config, givenProperty)
    /\ pc' = "returned"
    /\ UNCHANGED <<parserVars, generatorVars, propertyLine, parsedProperty, givenProperty>>
\* ------------------------------------------------------------------------
\* Specifications
\* ------------------------------------------------------------------------

NoModel == [boundedContexts |-> <<>>]

NoProperty == [name |-> <<>>, type |-> <<>>, nullable |-> FALSE, isRelation |-> FALSE, isCollection |-> FALSE, isEnum |-> FALSE]

\* no helper is called on its own
NoCall ==
    /\ propertyLine = <<>>
    /\ parsedProperty = <<>>
    /\ givenProperty = NoProperty
    /\ phpType = <<>>

InitParser ==
    /\ content = <<>>
    /\ i = 0
    /\ pc = "loop"
    /\ boundedContexts = InitialParserState.boundedContexts
    /\ currentBoundedContext = InitialParserState.currentBoundedContext
    /\ currentAggregate = InitialParserState.currentAggregate
    /\ currentEntity = InitialParserState.currentEntity
    /\ currentValueObject = InitialParserState.currentValueObject
    /\ currentEnum = InitialParserState.currentEnum

InitParse ==
    /\ InitParser
    /\ model = NoModel
    /\ config = DefaultConfig
    /\ files = <<>>
    /\ firstFiles = <<>>
    /\ runs = 0
    /\ NoCall

\* parseCML on any text of at most MaxLines lines
NextParse ==
    \/ \E raw \in AnyLines : ReadLine(raw, MaxLines, FALSE)
    \/ Return

SpecParse == InitParse /\ [][NextParse]_vars

\* parseCML on the well-nested texts of at most MaxNestedLines lines
NextNested ==
    \/ \E raw \in NestedLines : ReadLine(raw, MaxNestedLines, TRUE)
    \/ Return

SpecNested == InitParse /\ [][NextNested]_vars


\* The whole pipeline: a text is read line by line, the model is returned,
\* and files are generated from it twice.
PipelineLines == {lnSales, lnOrder, lnEntity, lnValueObject, lnEnum, lnRoot, lnLines, lnLabels, lnClose, lnComment}

MaxPipelineLines == 8

PipelineConfigs ==
    {DefaultConfig,
     [DefaultConfig EXCEPT !.framework = "doctrine", !.directoryStructure = "aggregate", !.groupByType = TRUE, !.regexPatternMappings = SampleRules]}

NextPipeline ==
    \/ \E raw \in PipelineLines : ReadLine(raw, MaxPipelineLines, TRUE)
    \/ Return
    \/ \E cfg \in PipelineConfigs : Generate(cfg)
    \/ GenerateAgain

SpecPipeline == InitParse /\ [][NextPipeline]_vars

\* The state in which parseCML has returned the model of a sample text.
Returned(text, s) ==
    /\ content = text
    /\ i = Len(LogicalLines(text))
    /\ pc = "done"
    /\ boundedContexts = s.boundedContexts
    /\ currentBoundedContext = s.currentBoundedContext
    /\ currentAggregate = s.currentAggregate
    /\ currentEntity = s.currentEntity
    /\ currentValueObject = s.currentValueObject
    /\ currentEnum = s.currentEnum
    /\ model = [boundedContexts |-> s.boundedContexts]
    /\ config = DefaultConfig
    /\ files = <<>>
    /\ firstFiles = <<>>
    /\ runs = 0
    /\ NoCall

InitGenerate == \E text \in SampleTexts : Returned(text, ParseLines(InitialParserState, LogicalLines(text)))

NextGenerate == \E cfg \in SampleConfigs : Generate(cfg)

SpecGenerate == InitGenerate /\ [][NextGenerate]_vars

\* mapTypeToPHP on its own: every framework, and properties whose type is
\* missing, blank, a primitive in several spellings, or another name
tyBlank == <<" ">>
tyUpperString == <<"S", "T", "R", "I", "N", "G">>
tyCapInt == <<"I", "n", "t">>
tyUpperBool == <<"B", "O", "O", "L">>
tyCapBoolean == <<"B", "o", "o", "l", "e", "a", "n">>
tyCapDouble == <<"D", "o", "u", "b", "l", "e">>
tyCapDateTime == <<"D", "a", "t", "e", "T", "i", "m", "e">>
tyCapClob == <<"C", "l", "o", "b">>
tyStrings == <<"S", "t", "r", "i", "n", "g", "s">>
tyIn == <<"i", "n">>
tyPaddedInt == <<" ", "i", "n", "t">>
tyCapString == <<"S", "t", "r", "i", "n", "g">>

MapTypeNames ==
    {<<>>, tyBlank, tString, tyCapString, tyUpperString, tInt, tyCapInt, tInteger, tBool, tyUpperBool, tyCapBoolean, tFloat, tyCapDouble,
     tyCapDateTime, tDate, tyCapClob, sOrder, tyStrings, tyIn, tyPaddedInt}

MapTypeProperties ==
    {[name |-> sName, type |-> t, nullable |-> FALSE, isRelation |-> r, isCollection |-> c, isEnum |-> FALSE] :
        t \in MapTypeNames, r \in BOOLEAN, c \in BOOLEAN}

\* parseCML and generatePHP not called
Idle ==
    /\ content = <<>>
    /\ i = 0
    /\ boundedContexts = InitialParserState.boundedContexts
    /\ currentBoundedContext = InitialParserState.currentBoundedContext
    /\ currentAggregate = InitialParserState.currentAggregate
    /\ currentEntity = InitialParserState.currentEntity
    /\ currentValueObject = InitialParserState.currentValueObject
    /\ currentEnum = InitialParserState.currentEnum
    /\ model = NoModel
    /\ files = <<>>
    /\ firstFiles = <<>>
    /\ runs = 0

InitMapType ==
    /\ Idle
    /\ pc = "call"
    /\ config \in {[DefaultConfig EXCEPT !.framework = f] : f \in Frameworks}
    /\ propertyLine = <<>>
    /\ parsedProperty = <<>>
    /\ givenProperty \in MapTypeProperties
    /\ phpType = <<>>

NextMapType == CallMapTypeToPHP

SpecMapType == InitMapType /\ [][NextMapType]_vars

\* parseProperty on its own: plain lines of a type and a name with the
\* token 'nullable' nowhere, before the type, between type and name or after
\* the name, and collection lines of several element types
sFooRef == <<"@", "F", "o", "o">>
sQualified == <<"a", ".", "B">>
sNestedSet == <<"S", "e", "t", "<", "X", ">">>
sNullableNote == <<"n", "u", "l", "l", "a", "b", "l", "e", "N", "o", "t", "e">>
tyNonnullable == <<"N", "o", "n", "n", "u", "l", "l", "a", "b", "l", "e">>
sIndent == <<" ", " ", " ", " ", " ", " ">>

PropertyTypes == {tyCapString, sOrder, tyNonnullable}

PropertyNames == {sName, sNote, sNullableNote}

NullablePositions == {"none", "before", "between", "after"}

Placed(type, name, position) ==
    CASE position = "none" -> sIndent \o type \o <<" ">> \o name
      [] position = "before" -> sIndent \o sNullable \o <<" ">> \o type \o <<" ">> \o name
      [] position = "between" -> sIndent \o type \o <<" ">> \o sNullable \o <<" ">> \o name
      [] position = "after" -> sIndent \o type \o <<" ">> \o name \o <<" ">> \o sNullable

PlainLines == {Placed(t, n, p) : t \in PropertyTypes, n \in PropertyNames, p \in NullablePositions}

ElementTypes == {sOrderLine, tyCapString, sFooRef, sQualified, sNestedSet}

CollectionLines ==
    {sIndent \o dash \o open \o t \o <<">", " ">> \o n :
        dash \in {<<>>, <<"-", " ">>}, open \in {sSetOpen, sListOpen}, t \in ElementTypes, n \in {sLines, sTags}}

PropertyLines == PlainLines \cup CollectionLines

InitProperty ==
    /\ Idle
    /\ pc = "call"
    /\ config = DefaultConfig
    /\ propertyLine \in PropertyLines
    /\ parsedProperty = <<>>
    /\ givenProperty = NoProperty
    /\ phpType = <<>>

NextProperty == CallParseProperty

SpecProperty == InitProperty /\ [][NextProperty]_vars

\* parseCML on texts whose lines may end in a comment
lnCloseNoted == <<" ", " ", " ", " ", "}", " ", "/", "/", " ", "e", "n", "d", " ", "o", "f", " ", "O", "r", "d", "e", "r">>
lnRootNoted == <<" ", " ", " ", " ", " ", " ", "a", "g", "g", "r", "e", "g", "a", "t", "e", "R", "o", "o", "t", " ", "/", "/", " ", "t", "h", "e", " ", "r", "o", "o", "t">>
lnNameNoted == <<" ", " ", " ", " ", " ", " ", "S", "t", "r", "i", "n", "g", " ", "n", "a", "m", "e", ";", " ", "/", "/", " ", "t", "h", "e", " ", "n", "a", "m", "e">>
lnEntityNoted == <<" ", " ", " ", " ", "E", "n", "t", "i", "t", "y", " ", "O", "r", "d", "e", "r", " ", "{", " ", "/", "/", " ", "m", "a", "i", "n", " ", "e", "n", "t", "i", "t", "y">>

CommentedLines ==
    {lnSales, lnOrder, lnEntity, lnValueObject, lnEnum, lnRoot, lnName, lnClose, lnComment,
     lnCloseNoted, lnRootNoted, lnNameNoted, lnEntityNoted}

MaxCommentedLines == 4

NextCommented == \E raw \in CommentedLines : ReadLine(raw, MaxCommentedLines, FALSE)

SpecCommented == InitParse /\ [][NextCommented]_vars

\* parseCML inside the first aggregate of a text: the loop has read
\* "BoundedContext Sales {" and "  Aggregate Order {" and reads any lines
Preamble == <<lnSales, lnOrder>>

Reading(text, s) ==
    /\ content = text
    /\ i = Len(LogicalLines(text))
    /\ pc = "loop"
    /\ boundedContexts = s.boundedContexts
    /\ currentBoundedContext = s.currentBoundedContext
    /\ currentAggregate = s.currentAggregate
    /\ currentEntity = s.currentEntity
    /\ currentValueObject = s.currentValueObject
    /\ currentEnum = s.currentEnum
    /\ model = NoModel
    /\ config = DefaultConfig
    /\ files = <<>>
    /\ firstFiles = <<>>
    /\ runs = 0
    /\ NoCall

InitBody == Reading(Preamble, ParseLines(InitialParserState, LogicalLines(Preamble)))

BodyLines == {lnCrm, lnCart, lnEntity, lnValueObject, lnEnum, lnClose, lnRoot, lnName, lnLines, lnComment}

MaxBodyLines == 5

NextBody == \E raw \in BodyLines : ReadLine(raw, MaxBodyLines, FALSE)

SpecBody == InitBody /\ [][NextBody]_vars
\* ------------------------------------------------------------------------
\* parseCML: properties
\* ------------------------------------------------------------------------

IsText(s) == DOMAIN s = 1..Len(s)

IsCMLProperty(p) ==
    /\ DOMAIN p = {"name", "type", "nullable", "isRelation", "isCollection", "isEnum"}
    /\ IsText(p.name) /\ IsText(p.type)
    /\ p.nullable \in BOOLEAN /\ p.isRelation \in BOOLEAN /\ p.isCollection \in BOOLEAN /\ p.isEnum \in BOOLEAN

IsCMLEntity(e) ==
    /\ DOMAIN e = {"name", "isAggregateRoot", "properties"}
    /\ IsText(e.name) /\ e.isAggregateRoot \in BOOLEAN
    /\ \A k \in DOMAIN e.properties : IsCMLProperty(e.properties[k])

IsCMLValueObject(v) ==
    /\ DOMAIN v = {"name", "properties"}
    /\ IsText(v.name)
    /\ \A k \in DOMAIN v.properties : IsCMLProperty(v.properties[k])

IsCMLEnum(e) ==
    /\ DOMAIN e = {"name", "values"}
    /\ IsText(e.name)
    /\ \A k \in DOMAIN e.values : IsText(e.values[k])

IsCMLAggregate(a) ==
    /\ DOMAIN a = {"name", "entities", "valueObjects", "enums"}
    /\ IsText(a.name)
    /\ \A k \in DOMAIN a.entities : IsCMLEntity(a.entities[k])
    /\ \A k \in DOMAIN a.valueObjects : IsCMLValueObject(a.valueObjects[k])
    /\ \A k \in DOMAIN a.enums : IsCMLEnum(a.enums[k])

\* the CMLModel interface of the parser
IsCMLModel(m) ==
    /\ DOMAIN m = {"boundedContexts"}
    /\ \A b \in DOMAIN m.boundedContexts :
        /\ DOMAIN m.boundedContexts[b] = {"name", "aggregates"}
        /\ IsText(m.boundedContexts[b].name)
        /\ \A a \in DOMAIN m.boundedContexts[b].aggregates : IsCMLAggregate(m.boundedContexts[b].aggregates[a])

\* C6: parseCML is total. On every text, well formed or not, the loop raises
\* no error, it has made one iteration per logical line of the text read
\* (no line skipped, none processed twice), and when it ends it returns a
\* CMLModel.
C6_ParseTotal ==
    /\ pc # "threw"
    /\ i = Len(LogicalLines(content))
    /\ pc = "done" => IsCMLModel(model) /\ model.boundedContexts = boundedContexts

\* a text that starts with an unmatched brace, declares a nameless entity
\* outside any aggregate, holds a line of no grammar form and an aggregate
\* outside any context: parseCML returns the empty model
C6_Witness ==
    /\ pc = "done"
    /\ content = <<lnClose, lnEntityNoName, lnJunk, lnOrder>>
    /\ i = 4
    /\ model = [boundedContexts |-> <<>>]

\* the scopes open after one more line of the given kind
ScopesAfter(scopes, kind) ==
    IF kind \in {"context", "aggregate", "entity", "valueObject", "enum"} THEN Append(scopes, kind)
    ELSE IF kind = "close" THEN SubSeq(scopes, 1, Len(scopes) - 1)
    ELSE scopes

\* the tree a well-nested text denotes, one line further: a declaration
\* belongs to the scope whose braces enclose it
MirrorStep(tree, scopes, e) ==
    LET b == Len(tree)
        a == IF b = 0 THEN 0 ELSE Len(tree[b].aggregates)
        inner == IF scopes = <<>> THEN "top" ELSE scopes[Len(scopes)]
    IN  CASE e.kind = "context" -> Append(tree, [name |-> e.name, aggregates |-> <<>>])
          [] e.kind = "aggregate" -> [tree EXCEPT ![b].aggregates = Append(@, [name |-> e.name, entities |-> <<>>, valueObjects |-> <<>>, enums |-> <<>>])]
          [] e.kind = "entity" -> [tree EXCEPT ![b].aggregates[a].entities = Append(@, [name |-> e.name, isAggregateRoot |-> FALSE, properties |-> <<>>])]
          [] e.kind = "valueObject" -> [tree EXCEPT ![b].aggregates[a].valueObjects = Append(@, [name |-> e.name, properties |-> <<>>])]
          [] e.kind = "enum" -> [tree EXCEPT ![b].aggregates[a].enums = Append(@, [name |-> e.name, values |-> <<>>])]
          [] e.kind = "root" -> [tree EXCEPT ![b].aggregates[a].entities[Len(tree[b].aggregates[a].entities)].isAggregateRoot = TRUE]
          [] e.kind = "property" /\ inner = "entity" -> [tree EXCEPT ![b].aggregates[a].entities[Len(tree[b].aggregates[a].entities)].properties = @ \o e.props]
          [] e.kind = "property" /\ inner = "valueObject" -> [tree EXCEPT ![b].aggregates[a].valueObjects[Len(tree[b].aggregates[a].valueObjects)].properties = @ \o e.props]
          [] e.kind = "values" -> [tree EXCEPT ![b].aggregates[a].enums[Len(tree[b].aggregates[a].enums)].values = @ \o e.values]
          [] OTHER -> tree

RECURSIVE MirrorFrom(_, _, _)
MirrorFrom(text, tree, scopes) ==
    IF text = <<>>
    THEN tree
    ELSE MirrorFrom(Tail(text), MirrorStep(tree, scopes, Entry(Head(text))), ScopesAfter(scopes, Entry(Head(text)).kind))

MirrorTree(text) == MirrorFrom(text, <<>>, <<>>)

\* C7: on a well-nested text (every context, aggregate, entity, value object
\* and enum opened by its keyword line and closed by its own brace line) the
\* tree parseCML builds mirrors the nesting: every unit hangs in the
\* aggregate whose braces enclose it, every aggregate in the enclosing
\* context, aggregateRoot marks the enclosing entity only, and
\* "- Set<OrderLine> lines" gives the enclosing entity the property
\* {name: lines, type: OrderLine, isRelation, isCollection}.  It holds after
\* every line of such a text, and of the model returned.
C7_TreeMirrorsNesting ==
    /\ boundedContexts = MirrorTree(content)
    /\ pc = "done" => model = [boundedContexts |-> MirrorTree(content)]

\* scenario 1 of the specification, parsed
C7_Witness ==
    /\ pc = "done"
    /\ content = <<lnSales, lnOrder, lnEntity, lnRoot, lnLines, lnClose, lnClose, lnClose>>
    /\ model = [boundedContexts |-> <<[name |-> sSales, aggregates |-> <<[name |-> sOrder, valueObjects |-> <<>>, enums |-> <<>>,
                 entities |-> <<[name |-> sOrder, isAggregateRoot |-> TRUE,
                                 properties |-> <<[name |-> sLines, type |-> sOrderLine, nullable |-> FALSE, isRelation |-> TRUE, isCollection |-> TRUE, isEnum |-> FALSE]>>]>>]>>]>>]

\* the labels of an enum body line: its comma-separated pieces without the
\* surrounding blanks, the empty ones left out
RECURSIVE TrimAll(_)
TrimAll(pieces) == IF pieces = <<>> THEN <<>> ELSE <<trim(Head(pieces))>> \o TrimAll(Tail(pieces))

LabelsOf(line) == NonEmpty(TrimAll(split(line, ",")))

RECURSIVE LabelsOfAll(_)
LabelsOfAll(lines) == IF lines = <<>> THEN <<>> ELSE LabelsOf(Head(lines)) \o LabelsOfAll(Tail(lines))

\* the lines of the text that follow its last enum declaration
RECURSIVE EnumBody(_)
EnumBody(text) ==
    IF text = <<>> \/ Entry(text[Len(text)]).kind = "enum"
    THEN <<>>
    ELSE Append(EnumBody(SubSeq(text, 1, Len(text) - 1)), text[Len(text)])

EnumIsOpen == OpenScopes(content) # <<>> /\ OpenScopes(content)[Len(OpenScopes(content))] = "enum"

\* C8: while an enumeration is open, its values are the labels of its body
\* lines, every non-empty label of every line, left to right and line after
\* line, each label as written but for the blanks around it.
C8_EnumLabelsInOrder ==
    EnumIsOpen =>
        /\ currentEnum.ref = "tree"
        /\ boundedContexts[currentEnum.bc].aggregates[currentEnum.ag].enums[currentEnum.ix].values = LabelsOfAll(EnumBody(content))



\* ------------------------------------------------------------------------
\* The generator's contract
\* ------------------------------------------------------------------------

\* generatePHP has returned
Generated == pc \in {"generated", "repeated"}

\* the units of one kind, or of every kind, an aggregate holds
UnitsIn(aggregate, kind) ==
    CASE kind = "enum" -> Len(aggregate.enums)
      [] kind = "valueobject" -> Len(aggregate.valueObjects)
      [] kind = "entity" -> Len(aggregate.entities)
      [] OTHER -> Len(aggregate.enums) + Len(aggregate.valueObjects) + Len(aggregate.entities)

RECURSIVE SumOverAggregates(_, _)
SumOverAggregates(aggregates, kind) ==
    IF aggregates = <<>> THEN 0 ELSE UnitsIn(Head(aggregates), kind) + SumOverAggregates(Tail(aggregates), kind)

\* the sum over all aggregates of all bounded contexts
RECURSIVE SumOverContexts(_, _)
SumOverContexts(contexts, kind) ==
    IF contexts = <<>> THEN 0 ELSE SumOverAggregates(Head(contexts).aggregates, kind) + SumOverContexts(Tail(contexts), kind)

Total(m, kind) == SumOverContexts(m.boundedContexts, kind)

FilesOfType(type) == Cardinality({k \in DOMAIN files : files[k].type = type})

\* C1: generatePHP returns one file record per enumeration, value object and
\* entity of the model: the list is as long as the sum of |enums| +
\* |valueObjects| + |entities| over all aggregates of all bounded contexts,
\* and it holds as many records of type 'enum', 'valueobject' and 'entity'
\* as the model holds units of that kind, and no record of another type.
C1_OneFilePerUnit ==
    Generated =>
        /\ Len(files) = Total(model, "any")
        /\ FilesOfType("enum") = Total(model, "enum")
        /\ FilesOfType("valueobject") = Total(model, "valueobject")
        /\ FilesOfType("entity") = Total(model, "entity")
        /\ \A k \in DOMAIN files : files[k].type \in {"enum", "valueobject", "entity"}

\* two contexts and three aggregates with units of every kind: seven files
C1_Witness ==
    /\ pc = "generated"
    /\ Len(model.boundedContexts) = 2
    /\ Len(model.boundedContexts[1].aggregates) = 2
    /\ Len(files) = 7
    /\ FilesOfType("enum") = 1
    /\ FilesOfType("valueobject") = 3
    /\ FilesOfType("entity") = 3

\* the units of a model in the order the claim gives them: context after
\* context, aggregate after aggregate, in each aggregate the enums, then the
\* value objects, then the entities, each kind in the order of its sequence
Unit(kind, boundedContext, aggregate, unit) == [kind |-> kind, context |-> boundedContext.name, aggregate |-> aggregate.name, unit |-> unit]

UnitsOfAggregate(bc, ag) ==
    [k \in 1..Len(ag.enums) |-> Unit("enum", bc, ag, ag.enums[k])]
    \o [k \in 1..Len(ag.valueObjects) |-> Unit("valueobject", bc, ag, ag.valueObjects[k])]
    \o [k \in 1..Len(ag.entities) |-> Unit("entity", bc, ag, ag.entities[k])]

RECURSIVE UnitsOfAggregates(_, _)
UnitsOfAggregates(bc, aggregates) ==
    IF aggregates = <<>> THEN <<>> ELSE UnitsOfAggregate(bc, Head(aggregates)) \o UnitsOfAggregates(bc, Tail(aggregates))

RECURSIVE UnitsOfContexts(_)
UnitsOfContexts(contexts) ==
    IF contexts = <<>> THEN <<>> ELSE UnitsOfAggregates(Head(contexts), Head(contexts).aggregates) \o UnitsOfContexts(Tail(contexts))

Units == UnitsOfContexts(model.boundedContexts)

NoRules == config.regexPatternMappings = <<>>

\* C2: the list generatePHP returns follows the model: bounded contexts and
\* aggregates in model order, and for every aggregate its enum files, then
\* its value-object files, then its entity files, each kind in the order of
\* the aggregate's sequence.  The k-th file has the type of the k-th unit in
\* that order and, no pattern rule renaming it, is named after it.
C2_FilesInModelOrder ==
    Generated =>
        /\ Len(files) = Len(Units)
        /\ \A k \in DOMAIN files :
            /\ files[k].type = Units[k].kind
            /\ NoRules => files[k].filename = Units[k].unit.name \o sPhpExtension

FileNames == [k \in DOMAIN files |-> files[k].filename]

FileTypes == [k \in DOMAIN files |-> files[k].type]

\* an aggregate with two enums, three value objects and three entities
C2_Witness ==
    /\ pc = "generated"
    /\ NoRules
    /\ FileTypes = <<"enum", "enum", "valueobject", "valueobject", "valueobject", "entity", "entity", "entity">>
    /\ FileNames = <<sKind \o sPhpExtension, sStatus \o sPhpExtension,
                     sAddress \o sPhpExtension, sMarker \o sPhpExtension, sMoney \o sPhpExtension,
                     sOrderLine \o sPhpExtension, sAudit \o sPhpExtension, sOrder \o sPhpExtension>>

NormalChar(c) ==
    IF c \in LowerSet THEN ToUpperChar(c)
    ELSE IF c \in UpperSet \cup Digits \cup {"_"} THEN c
    ELSE "_"

Normalised(label) == [j \in DOMAIN label |-> NormalChar(label[j])]

\* C4: for every enumeration, generateEnum emits one case per raw value
\* label, in the order of the values; the identifier and the string backing
\* value of a case both are the label upper-cased, every character outside
\* [A-Za-z0-9_] replaced by '_'.
C4_EnumCasesNormalised ==
    Generated =>
        \A k \in DOMAIN files :
            files[k].type = "enum" =>
                /\ Len(files[k].content.cases) = Len(Units[k].unit.values)
                /\ \A j \in DOMAIN files[k].content.cases :
                    /\ files[k].content.cases[j].name = Normalised(Units[k].unit.values[j])
                    /\ files[k].content.cases[j].value = Normalised(Units[k].unit.values[j])

CaseNames(k) == [j \in DOMAIN files[k].content.cases |-> files[k].content.cases[j].name]

\* scenario 2 of the specification, generated, and a fourth value
C4_Witness ==
    /\ pc = "generated"
    /\ Len(files) = 2
    /\ files[2].type = "enum"
    /\ Units[2].unit.values = <<sActive, sInactive, sPendingReview, sDraft>>
    /\ CaseNames(2) = <<toUpperCase(sActive), toUpperCase(sInactive), <<"P", "E", "N", "D", "I", "N", "G", "_", "R", "E", "V", "I", "E", "W">>, toUpperCase(sDraft)>>

IsSetterName(name) == startsWith(name, sSet)

Constructors(k) == SelectSeq(files[k].content.methods, LAMBDA m : m.name = sConstruct)

ParameterNames(method) == {method.params[j].name : j \in DOMAIN method.params}

ReadonlyRequested == config.readonlyValueObjects /\ config.phpVersion \in {"8.1", "8.2", "8.3", "8.4"}

\* C5: for every value object, readonlyValueObjects being requested and the
\* PHP version 8.1 or later, whatever constructorType,
\* constructorPropertyPromotion and addSetters are, the emitted class has no
\* setter method and every declared property is a parameter of its
\* constructor.
C5_ReadonlyValueObject ==
    Generated /\ ReadonlyRequested =>
        \A k \in DOMAIN files :
            files[k].type = "valueobject" =>
                /\ \A j \in DOMAIN files[k].content.methods : ~IsSetterName(files[k].content.methods[j].name)
                /\ \A p \in DOMAIN Units[k].unit.properties :
                    \E c \in DOMAIN Constructors(k) : Units[k].unit.properties[p].name \in ParameterNames(Constructors(k)[c])

\* a value object with a nullable property, generated read-only for 8.1 with
\* constructorType 'required', setters asked for, no promotion
C5_Witness ==
    /\ pc = "generated"
    /\ ReadonlyRequested
    /\ config.phpVersion = "8.1"
    /\ config.constructorType = "required"
    /\ config.addSetters
    /\ ~config.constructorPropertyPromotion
    /\ Len(files) = 1
    /\ files[1].type = "valueobject"
    /\ Len(Units[1].unit.properties) = 2
    /\ Units[1].unit.properties[2].nullable
    /\ Len(Constructors(1)) = 1
    /\ ParameterNames(Constructors(1)[1]) = {sName, sNote}

\* the folder the claim names for a kind of unit
KindName(type) ==
    CASE type = "enum" -> <<"E", "n", "u", "m">>
      [] type = "valueobject" -> <<"V", "a", "l", "u", "e", "O", "b", "j", "e", "c", "t">>
      [] type = "entity" -> <<"E", "n", "t", "i", "t", "y">>

KindSegment(type) == IF config.groupByType THEN KindName(type) \o <<"/">> ELSE <<>>

StructureSegment(unit) ==
    CASE config.directoryStructure = "flat" -> <<>>
      [] config.directoryStructure = "bounded-context" -> unit.context \o <<"/">>
      [] config.directoryStructure \in {"aggregate", "psr-4"} -> unit.context \o <<"/">> \o unit.aggregate \o <<"/">>

PathOfClaim(unit) == StructureSegment(unit) \o KindSegment(unit.kind) \o unit.unit.name \o <<".", "p", "h", "p">>

\* C9: without pattern rules, the context and the aggregate having names,
\* the path of a unit follows from directoryStructure and groupByType:
\* flat gives [Kind/]Name.php, bounded-context Context/[Kind/]Name.php,
\* aggregate and psr-4 Context/Aggregate/[Kind/]Name.php, Kind being Enum,
\* ValueObject or Entity and present exactly when groupByType is true.
C9_PathByStructure ==
    Generated /\ NoRules /\ config.directoryStructure \in {"flat", "bounded-context", "aggregate", "psr-4"} =>
        \A k \in DOMAIN files :
            Units[k].context # <<>> /\ Units[k].aggregate # <<>> => files[k].path = PathOfClaim(Units[k])

\* scenario 3 of the specification: Sales/Order/Entity/Order.php
C9_Witness ==
    /\ pc = "generated"
    /\ NoRules
    /\ config.directoryStructure = "aggregate"
    /\ config.groupByType
    /\ Len(files) = 1
    /\ files[1].type = "entity"
    /\ Units[1].context = sSales
    /\ Units[1].aggregate = sOrder
    /\ files[1].path = <<"S", "a", "l", "e", "s", "/", "O", "r", "d", "e", "r", "/", "E", "n", "t", "i", "t", "y", "/", "O", "r", "d", "e", "r", ".", "p", "h", "p">>

RECURSIVE Collections(_)
Collections(props) ==
    IF props = <<>> THEN <<>>
    ELSE (IF Head(props).isCollection THEN <<Head(props)>> ELSE <<>>) \o Collections(Tail(props))

IsInitialisation(statement) == statement.op \in {NewArrayCollection(<<>>).op, EmptyArray(<<>>).op}

\* the body initialises the collections, one statement each, in their order
InitialisesAll(body, collections) ==
    /\ Len(body) = Len(collections)
    /\ \A j \in DOMAIN body : IsInitialisation(body[j]) /\ body[j].name = collections[j].name

OnlyInitialises(constructors, collections) ==
    /\ Len(constructors) = IF collections # <<>> THEN 1 ELSE 0
    /\ \A c \in DOMAIN constructors : constructors[c].params = <<>> /\ InitialisesAll(constructors[c].body, collections)

\* C10: for every entity generated with constructorType 'none' under the
\* doctrine framework, a constructor is emitted if and only if the entity
\* has a collection property; there is then one constructor, without
\* parameters, whose body is one initialisation statement per collection
\* property, in declaration order, and nothing else.
C10_DoctrineCollectionConstructor ==
    Generated /\ config.constructorType = "none" /\ config.framework = "doctrine" =>
        \A k \in DOMAIN files :
            files[k].type = "entity" => OnlyInitialises(Constructors(k), Collections(Units[k].unit.properties))

\* an entity with a relation collection and a primitive collection
C10_Witness ==
    /\ pc = "generated"
    /\ config.constructorType = "none"
    /\ config.framework = "doctrine"
    /\ Len(files) = 3
    /\ files[3].type = "entity"
    /\ Len(Constructors(3)) = 1
    /\ Constructors(3)[1].body = <<NewArrayCollection(sLines), EmptyArray(sTags)>>
    /\ Constructors(3)[1].params = <<>>
    /\ Len(Constructors(2)) = 0

\* ------------------------------------------------------------------------
\* Pattern rules
\* ------------------------------------------------------------------------

\* the kind filter of a rule that selects the units of a file type
KindFilter(type) ==
    CASE type = "enum" -> "Enum"
      [] type = "valueobject" -> "ValueObject"
      [] type = "entity" -> "Entity"

\* the pattern of the rule matches the name and its kind filter lets the kind pass
Qualifies(rule, name, type) ==
    /\ rule.typeFolder = "" \/ rule.typeFolder = KindFilter(type)
    /\ ~RegExpThrows(rule.pattern)
    /\ RegExpTest(rule.pattern, name)

\* the rule names a pattern and a subfolder
IsComplete(rule) == rule.pattern # <<>> /\ rule.subfolder # <<>>

Qualifying(rules, name, type) == {r \in DOMAIN rules : Qualifies(rules[r], name, type)}

CompleteQualifying(rules, name, type) == {r \in DOMAIN rules : IsComplete(rules[r]) /\ Qualifies(rules[r], name, type)}

Lowest(indices) == CHOOSE r \in indices : \A q \in indices : r <= q

\* the name without the first match of the name-strip pattern
Stripped(name, nameReplace) ==
    IF nameReplace = <<>> \/ RegExpThrows(nameReplace) THEN name ELSE RegExpRemove(nameReplace, name)

\* the folders of a path: structure, kind and subfolder, each with its slash
SubfolderSegment(subfolder) == IF StripTrailingSlashes(subfolder) = <<>> THEN <<>> ELSE StripTrailingSlashes(subfolder) \o <<"/">>

HasFolderNames(unit) == config.directoryStructure \in {"flat", "bounded-context", "aggregate", "psr-4"} /\ unit.context # <<>> /\ unit.aggregate # <<>>

\* file k is placed and named by the rule of index r
PlacedBy(k, rule) ==
    /\ files[k].filename = Stripped(Units[k].unit.name, rule.nameReplace) \o sPhpExtension
    /\ HasFolderNames(Units[k]) =>
        files[k].path = StructureSegment(Units[k]) \o KindSegment(Units[k].kind) \o SubfolderSegment(rule.subfolder) \o files[k].filename

\* file k is placed and named by the lowest rule of the set, by none if the set is empty
PlacedByLowest(k, rules, indices) == PlacedBy(k, IF indices = {} THEN NoMapping ELSE rules[Lowest(indices)])

\* C11 as stated: for every list of pattern rules and every unit, subfolder
\* and name-strip are those of the lowest-index rule whose pattern matches
\* the unit's original name and whose kind filter is absent or equal to the
\* unit's kind; without such a rule the subfolder is empty and the name
\* unchanged.
C11_FirstMatchingRule ==
    Generated =>
        \A k \in DOMAIN files :
            PlacedByLowest(k, config.regexPatternMappings, Qualifying(config.regexPatternMappings, Units[k].unit.name, Units[k].kind))

\* C11 amended: the same of the lowest-index rule that names a pattern and a
\* subfolder, whose pattern matches the unit's original name and whose kind
\* filter is absent or equal to the unit's kind; a rule without pattern or
\* without subfolder is passed over.
C11_FirstCompleteMatchingRule ==
    Generated =>
        \A k \in DOMAIN files :
            PlacedByLowest(k, config.regexPatternMappings, CompleteQualifying(config.regexPatternMappings, Units[k].unit.name, Units[k].kind))

\* OrderLine matches both rules of the list and is placed by the first
C11_Witness ==
    /\ pc = "generated"
    /\ config.regexPatternMappings = OverlappingRules
    /\ config.directoryStructure = "flat"
    /\ ~config.groupByType
    /\ Len(files) = 3
    /\ Units[1].unit.name = sOrderLine
    /\ CompleteQualifying(OverlappingRules, sOrderLine, "entity") = {1, 2}
    /\ files[1].filename = <<"L", "i", "n", "e", ".", "p", "h", "p">>
    /\ files[1].path = <<"O", "r", "d", "e", "r", "s", "/", "L", "i", "n", "e", ".", "p", "h", "p">>

\* ------------------------------------------------------------------------
\* Malformed regular expressions
\* ------------------------------------------------------------------------

PatternCompiles(rule) == ~RegExpThrows(rule.pattern)

\* the configuration without the rules whose match pattern does not compile
WithoutBrokenPatterns(cfg) == [cfg EXCEPT !.regexPatternMappings = SelectSeq(cfg.regexPatternMappings, PatternCompiles)]

\* the rule the generator applies to unit k has a name-strip that does not compile
BrokenStrip(k) ==
    /\ CompleteQualifying(config.regexPatternMappings, Units[k].unit.name, Units[k].kind) # {}
    /\ config.regexPatternMappings[Lowest(CompleteQualifying(config.regexPatternMappings, Units[k].unit.name, Units[k].kind))].nameReplace # <<>>
    /\ RegExpThrows(config.regexPatternMappings[Lowest(CompleteQualifying(config.regexPatternMappings, Units[k].unit.name, Units[k].kind))].nameReplace)

SubfolderOfWinner(k) ==
    config.regexPatternMappings[Lowest(CompleteQualifying(config.regexPatternMappings, Units[k].unit.name, Units[k].kind))].subfolder

\* C12: a regular expression that does not compile never aborts generation.
\* generatePHP returns its full list, one file per unit; the list is the one
\* it returns for the rule list without the rules whose match pattern does
\* not compile; and a unit whose rule has a name-strip that does not compile
\* keeps its name and is still placed in the subfolder of the rule.
C12_BrokenRegexIsSkipped ==
    Generated =>
        /\ Len(files) = Len(Units)
        /\ files = generatePHP(model, WithoutBrokenPatterns(config))
        /\ \A k \in DOMAIN files :
            BrokenStrip(k) =>
                /\ files[k].filename = Units[k].unit.name \o sPhpExtension
                /\ HasFolderNames(Units[k]) =>
                    files[k].path = StructureSegment(Units[k]) \o KindSegment(Units[k].kind) \o SubfolderSegment(SubfolderOfWinner(k)) \o files[k].filename

\* the enum Status under the sample rules: the first rule does not compile,
\* the fourth matches and its name-strip does not compile
C12_Witness ==
    /\ pc = "generated"
    /\ config.regexPatternMappings = SampleRules
    /\ RegExpThrows(SampleRules[1].pattern)
    /\ config.directoryStructure = "flat"
    /\ ~config.groupByType
    /\ \E k \in DOMAIN files :
        /\ Units[k].unit.name = sStatus
        /\ BrokenStrip(k)
        /\ files[k].path = <<"S", "/", "S", "t", "a", "t", "u", "s", ".", "p", "h", "p">>

\* ------------------------------------------------------------------------
\* Identifier and filename
\* ------------------------------------------------------------------------

\* the name-strip pattern the generator applies to unit k, empty if none
StripOfWinner(k) ==
    IF CompleteQualifying(config.regexPatternMappings, Units[k].unit.name, Units[k].kind) = {}
    THEN <<>>
    ELSE config.regexPatternMappings[Lowest(CompleteQualifying(config.regexPatternMappings, Units[k].unit.name, Units[k].kind))].nameReplace

\* C13: for every emitted file the identifier its content declares (class or
\* enum name) and the stem of its filename are the same string: the filename
\* is the identifier followed by '.php', and the identifier is the original
\* name with the first match of the winning rule's name-strip removed, also
\* when the name-strip matches the entire name.
C13_IdentifierIsFilenameStem ==
    Generated =>
        \A k \in DOMAIN files :
            /\ files[k].filename = files[k].content.name \o sPhpExtension
            /\ files[k].content.name = Stripped(Units[k].unit.name, StripOfWinner(k))

\* the same with the units left out whose name the name-strip removes whole
IdentifierIsFilenameStemUnlessEmptied ==
    Generated =>
        \A k \in DOMAIN files :
            Stripped(Units[k].unit.name, StripOfWinner(k)) # <<>> =>
                /\ files[k].filename = files[k].content.name \o sPhpExtension
                /\ files[k].content.name = Stripped(Units[k].unit.name, StripOfWinner(k))

\* ------------------------------------------------------------------------
\* Enum files
\* ------------------------------------------------------------------------

\* C14: for every text and configuration, every file of type 'enum' that
\* generatePHP(parseCML(text), config) returns declares a string-backed enum
\* with at least one case: no enum reaches the generator with an empty list
\* of values, the enums whose values stand on the line of 'enum Name {'
\* included.
C14_EnumHasCases ==
    Generated =>
        \A k \in DOMAIN files :
            files[k].type = "enum" =>
                /\ files[k].content.kind = "enum"
                /\ files[k].content.backing = tString
                /\ Len(files[k].content.cases) >= 1

\* the same of the enums the model holds with a value
EnumWithValuesHasCases ==
    Generated =>
        \A k \in DOMAIN files :
            files[k].type = "enum" /\ Units[k].unit.values # <<>> =>
                /\ files[k].content.kind = "enum"
                /\ files[k].content.backing = tString
                /\ Len(files[k].content.cases) = Len(Units[k].unit.values)

\* ------------------------------------------------------------------------
\* mapTypeToPHP
\* ------------------------------------------------------------------------

IsBlank(s) == \A k \in DOMAIN s : IsSpace(s[k])

\* s spells the word, whatever the case of its letters
Spells(s, word) == Len(s) = Len(word) /\ \A k \in DOMAIN s : ToLowerChar(s[k]) = word[k]

\* the table of primitive types, the raw name for any other type
ReferencePrimitive(type) ==
    CASE Spells(type, <<"s", "t", "r", "i", "n", "g">>) -> <<"s", "t", "r", "i", "n", "g">>
      [] Spells(type, <<"i", "n", "t">>) \/ Spells(type, <<"i", "n", "t", "e", "g", "e", "r">>) -> <<"i", "n", "t">>
      [] Spells(type, <<"b", "o", "o", "l">>) \/ Spells(type, <<"b", "o", "o", "l", "e", "a", "n">>) -> <<"b", "o", "o", "l">>
      [] Spells(type, <<"f", "l", "o", "a", "t">>) \/ Spells(type, <<"d", "o", "u", "b", "l", "e">>) -> <<"f", "l", "o", "a", "t">>
      [] Spells(type, <<"d", "a", "t", "e", "t", "i", "m", "e">>) \/ Spells(type, <<"d", "a", "t", "e">>) -> <<"\\", "D", "a", "t", "e", "T", "i", "m", "e">>
      [] Spells(type, <<"c", "l", "o", "b">>) -> <<"s", "t", "r", "i", "n", "g">>
      [] OTHER -> type

ReferenceCollection(framework, isRelation) ==
    CASE isRelation /\ framework = "doctrine" -> tDoctrineCollection
      [] isRelation /\ framework = "laravel" -> tEloquentCollection
      [] OTHER -> <<"a", "r", "r", "a", "y">>

ReferencePHP(framework, p) ==
    IF IsBlank(p.type) THEN <<"m", "i", "x", "e", "d">>
    ELSE IF p.isCollection THEN ReferenceCollection(framework, p.isRelation)
    ELSE ReferencePrimitive(p.type)

MapTypeReturned == pc = "returned" /\ propertyLine = <<>>

\* C15: mapTypeToPHP returns, for every property and framework, the type of
\* the reference: 'mixed' for a missing or blank type; otherwise, for a
\* collection, the Doctrine Collection (doctrine, relation), the Eloquent
\* Collection (laravel, relation) and 'array' in every other case, whatever
\* the element type; otherwise string, int, bool, float, \DateTime, string
\* for string, int/integer, bool/boolean, float/double, datetime/date, clob
\* in any case of letters; otherwise the raw type name unchanged.
C15_MapTypeReference == MapTypeReturned => phpType = ReferencePHP(config.framework, givenProperty)

\* a relation collection of element type 'Int' under laravel
C15_Witness ==
    /\ MapTypeReturned
    /\ config.framework = "laravel"
    /\ givenProperty.type = tyCapInt
    /\ givenProperty.isCollection
    /\ givenProperty.isRelation
    /\ phpType = tEloquentCollection

\* ------------------------------------------------------------------------
\* parseProperty
\* ------------------------------------------------------------------------

PropertyReturned == pc = "returned" /\ propertyLine # <<>>

FirstIndexOf(s, c) == CHOOSE k \in DOMAIN s : s[k] = c /\ \A j \in 1..(k - 1) : s[j] # c

LastIndexOf(s, c) == CHOOSE k \in DOMAIN s : s[k] = c /\ \A j \in (k + 1)..Len(s) : s[j] # c

\* the element type T of the wrapper Set<T> or List<T> in a line
ElementOf(line) == SubSeq(line, FirstIndexOf(line, "<") + 1, LastIndexOf(line, ">") - 1)

IsWordOnly(s) == \A k \in DOMAIN s : IsWord(s[k])

\* C16: every property parseProperty returns with isCollection = true has
\* the element type T of its wrapper Set<T> or List<T> as its type, and
\* never a text that holds the wrapper, whatever the spelling of the element
\* type: with a reference marker, a qualified name or a nested wrapper.
C16_CollectionElementType ==
    PropertyReturned =>
        \A k \in DOMAIN parsedProperty :
            parsedProperty[k].isCollection =>
                /\ parsedProperty[k].type = ElementOf(propertyLine)
                /\ ~includes(parsedProperty[k].type, sSetOpen)
                /\ ~includes(parsedProperty[k].type, sListOpen)

\* the same of the element types spelt with letters, digits and '_' only
ElementTypeOfWordWrappers ==
    PropertyReturned =>
        \A k \in DOMAIN parsedProperty :
            parsedProperty[k].isCollection /\ IsWordOnly(ElementOf(propertyLine)) =>
                /\ parsedProperty[k].type = ElementOf(propertyLine)
                /\ ~includes(parsedProperty[k].type, sSetOpen)
                /\ ~includes(parsedProperty[k].type, sListOpen)

IsOtherToken(token) == token # sNullable

\* the tokens of a line that are not the keyword 'nullable'
OtherTokens(line) == SelectSeq(Tokens(line), IsOtherToken)

HasNullableToken(line) == \E k \in DOMAIN Tokens(line) : Tokens(line)[k] = sNullable

\* a line of a type token and a name token, with or without 'nullable' tokens
IsPlainLine(line) == ~includes(line, <<"<">>) /\ Len(OtherTokens(line)) = 2

\* C18: parseProperty takes 'nullable' as a keyword wherever it stands: a
\* line of a type token and a name token with the token 'nullable' before
\* the type, between type and name or after the name gives a property of
\* that type and name with nullable = true, and the line without the token
\* gives nullable = false, even if type or name holds the text 'nullable'.
C18_NullableKeyword ==
    PropertyReturned /\ IsPlainLine(propertyLine) =>
        /\ Len(parsedProperty) = 1
        /\ parsedProperty[1].type = OtherTokens(propertyLine)[1]
        /\ parsedProperty[1].name = OtherTokens(propertyLine)[2]
        /\ parsedProperty[1].nullable = HasNullableToken(propertyLine)

\* the same of the lines whose type and name do not hold the text
\* 'nullable' and whose keyword, if any, stands first or last
NullableKeywordAtTheEnds ==
    PropertyReturned /\ IsPlainLine(propertyLine)
        /\ ~includes(OtherTokens(propertyLine)[1], sNullable) /\ ~includes(OtherTokens(propertyLine)[2], sNullable)
        /\ (HasNullableToken(propertyLine) => Tokens(propertyLine)[2] # sNullable) =>
        /\ Len(parsedProperty) = 1
        /\ parsedProperty[1].type = OtherTokens(propertyLine)[1]
        /\ parsedProperty[1].name = OtherTokens(propertyLine)[2]
        /\ parsedProperty[1].nullable = HasNullableToken(propertyLine)

\* ------------------------------------------------------------------------
\* Closing braces
\* ------------------------------------------------------------------------

\* the step of parseCML that reads a closing-brace line
ClosingStep ==
    /\ pc = "loop"
    /\ Len(content') = Len(content) + 1
    /\ LogicalLines(<<content'[Len(content')]>>) # <<>>
    /\ BranchOf(ParserState, trim(content'[Len(content')])) = "ClosingBrace"

EnumStaysOrCloses == IF currentEnum # NullRef THEN currentEnum' = NullRef ELSE currentEnum' = currentEnum

ValueObjectStaysOrCloses ==
    IF currentEnum = NullRef /\ currentValueObject # NullRef THEN currentValueObject' = NullRef ELSE currentValueObject' = currentValueObject

EntityStaysOrCloses ==
    IF currentEnum = NullRef /\ currentValueObject = NullRef /\ currentEntity # NullRef THEN currentEntity' = NullRef ELSE currentEntity' = currentEntity

\* C17 as stated: a closing-brace line closes at most one of the open
\* cursors of enumeration, value object and entity: the enumeration if one
\* is open, otherwise the value object if one is open, otherwise the entity;
\* the cursors not chosen stay open after the line.
C17_ClosesOneCursor == [][ClosingStep => EnumStaysOrCloses /\ ValueObjectStaysOrCloses /\ EntityStaysOrCloses]_vars

\* C17 amended: a closing-brace line closes the cursors of enumeration, value
\* object and entity all at once, none of the three is open after the line,
\* and it leaves the cursors of bounded context and aggregate and the tree
\* as they are.
C17_ClosesAllCursors ==
    [][ClosingStep =>
        /\ currentEnum' = NullRef
        /\ currentValueObject' = NullRef
        /\ currentEntity' = NullRef
        /\ UNCHANGED <<boundedContexts, currentBoundedContext, currentAggregate>>]_vars

OpenCursors(s) == Cardinality({c \in {"currentEnum", "currentValueObject", "currentEntity"} : s[c] # NullRef})

\* a closing brace read with an entity and an enumeration both open
C17_Witness ==
    /\ pc = "loop"
    /\ Len(content) = 4
    /\ content[4] = lnClose
    /\ SubSeq(content, 2, 3) = <<lnEntity, lnEnum>>
    /\ OpenCursors(ParseLines(InitialParserState, LogicalLines(SubSeq(content, 1, 3)))) = 2
    /\ OpenCursors(ParserState) = 0

\* ------------------------------------------------------------------------
\* Namespaces
\* ------------------------------------------------------------------------

NamespacePrefix == IF config.namespace # <<>> THEN config.namespace ELSE <<"A", "p", "p", "\\", "M", "o", "d", "e", "l", "s">>

UnderContext(unit) == NamespacePrefix \o <<"\\">> \o unit.context

UnderAggregate(unit) == NamespacePrefix \o <<"\\">> \o unit.context \o <<"\\">> \o unit.aggregate

FourStructures == {"flat", "bounded-context", "aggregate", "psr-4"}

\* C19 as stated: of the four directory structures only psr-4 derives the
\* namespace from context and aggregate: under flat, bounded-context and
\* aggregate the namespace of every emitted enum, value object and entity is
\* the configured prefix (default App\Models) unchanged, and under psr-4 it
\* is prefix\Context\Aggregate.
C19_OnlyPsr4DerivesNamespace ==
    Generated /\ config.directoryStructure \in FourStructures =>
        \A k \in DOMAIN files :
            files[k].content.namespace = IF config.directoryStructure = "psr-4" THEN UnderAggregate(Units[k]) ELSE NamespacePrefix

\* C19 amended: only flat leaves the namespace to the prefix: the namespace
\* is the prefix under flat, prefix\Context under bounded-context if the
\* context has a name, prefix\Context\Aggregate under aggregate and under
\* psr-4 if context and aggregate have names, and the prefix otherwise.
C19_NamespaceByStructure ==
    Generated /\ config.directoryStructure \in FourStructures =>
        \A k \in DOMAIN files :
            files[k].content.namespace =
                CASE config.directoryStructure \in {"aggregate", "psr-4"} /\ Units[k].context # <<>> /\ Units[k].aggregate # <<>> -> UnderAggregate(Units[k])
                  [] config.directoryStructure = "bounded-context" /\ Units[k].context # <<>> -> UnderContext(Units[k])
                  [] OTHER -> NamespacePrefix

\* an entity of aggregate Order of context Sales under 'aggregate' and the
\* prefix Domain
C19_Witness ==
    /\ pc = "generated"
    /\ config.directoryStructure = "aggregate"
    /\ config.namespace = nsDomain
    /\ \E k \in DOMAIN files :
        /\ files[k].type = "entity"
        /\ files[k].content.namespace = <<"D", "o", "m", "a", "i", "n", "\\", "S", "a", "l", "e", "s", "\\", "O", "r", "d", "e", "r">>

\* ------------------------------------------------------------------------
\* Comments
\* ------------------------------------------------------------------------

\* the text with every line cut at its '//'
Uncommented(text) == [k \in DOMAIN text |-> StripComment(text[k])]

HasComment(text) == \E k \in DOMAIN text : includes(text[k], <<"/", "/">>)

\* C20: a '//' comment is ignored wherever it stands on a line: after every
\* line the state of the parser is the state it has after the same lines
\* without their comments; a line '} // c' closes the open enumeration,
\* value object or entity as a bare '}' does.
C20_CommentsIgnored ==
    pc = "loop" => ParserState = ParseLines(InitialParserState, LogicalLines(Uncommented(content)))

\* the same of the lines that carry a comment behind a keyword opener, a
\* property, or nothing
CommentsIgnoredOnOpenersAndProperties ==
    pc = "loop" /\ (\A k \in DOMAIN content : content[k] \notin {lnCloseNoted, lnRootNoted}) =>
        ParserState = ParseLines(InitialParserState, LogicalLines(Uncommented(content)))

\* ------------------------------------------------------------------------
\* Path segments
\* ------------------------------------------------------------------------

\* the path split on '/' has no empty segment
NoEmptySegment(path) ==
    /\ path # <<>>
    /\ path[1] # "/"
    /\ path[Len(path)] # "/"
    /\ \A k \in 1..(Len(path) - 1) : ~(path[k] = "/" /\ path[k + 1] = "/")

\* C21: every path generatePHP emits, split on '/', has no empty segment (no
\* leading slash, no trailing slash, no '//'), for every directory structure,
\* every groupByType, every subfolder of a rule and every name of context
\* and aggregate, the empty name included.
C21_NoEmptySegment == Generated => \A k \in DOMAIN files : NoEmptySegment(files[k].path)

\* the same of the units whose context and aggregate have names, under the
\* sample rules, whose subfolders carry no slash but trailing ones
NoEmptySegmentUnderNames ==
    Generated =>
        \A k \in DOMAIN files :
            Units[k].context # <<>> /\ Units[k].aggregate # <<>> => NoEmptySegment(files[k].path)

\* ------------------------------------------------------------------------
\* Laravel relations
\* ------------------------------------------------------------------------

IsEntityFile(k) == files[k].type = "entity"

PropertiesOf(k) == Units[k].unit.properties

FieldNames(k) == {files[k].content.properties[j].name : j \in DOMAIN files[k].content.properties}

MethodsNamed(k, name) == {j \in DOMAIN files[k].content.methods : files[k].content.methods[j].name = name}

\* the names of the parameters of the constructors of file k
ConstructorParameterNames(k) ==
    UNION {ParameterNames(files[k].content.methods[j]) : j \in MethodsNamed(k, sConstruct)}

Capitalised(name) == IF name = <<>> THEN <<>> ELSE <<ToUpperChar(Head(name))>> \o Tail(name)

HasAccessor(k, p) == MethodsNamed(k, sGet \o Capitalised(p.name)) # {} \/ MethodsNamed(k, sSet \o Capitalised(p.name)) # {}

\* the one method named after relation p returns HasMany or BelongsTo
OneRelationMethod(k, p) ==
    /\ Cardinality(MethodsNamed(k, p.name)) = 1
    /\ \A j \in MethodsNamed(k, p.name) :
        files[k].content.methods[j].returnType =
            IF p.isCollection
            THEN <<"I", "l", "l", "u", "m", "i", "n", "a", "t", "e", "\\", "D", "a", "t", "a", "b", "a", "s", "e", "\\", "E", "l", "o", "q", "u", "e", "n", "t", "\\", "R", "e", "l", "a", "t", "i", "o", "n", "s", "\\", "H", "a", "s", "M", "a", "n", "y">>
            ELSE <<"I", "l", "l", "u", "m", "i", "n", "a", "t", "e", "\\", "D", "a", "t", "a", "b", "a", "s", "e", "\\", "E", "l", "o", "q", "u", "e", "n", "t", "\\", "R", "e", "l", "a", "t", "i", "o", "n", "s", "\\", "B", "e", "l", "o", "n", "g", "s", "T", "o">>

\* C22: under laravel, for every entity and every relation property p of
\* it, no field is declared for p, p is no constructor parameter, p has no
\* getter and no setter, and exactly one method named p is emitted, which
\* returns HasMany if p is a collection and BelongsTo otherwise; a property
\* that is no relation has no method of its name.
C22_LaravelRelations ==
    Generated /\ config.framework = "laravel" =>
        \A k \in DOMAIN files :
            IsEntityFile(k) =>
                \A n \in DOMAIN PropertiesOf(k) :
                    IF PropertiesOf(k)[n].isRelation
                    THEN /\ PropertiesOf(k)[n].name \notin FieldNames(k)
                         /\ PropertiesOf(k)[n].name \notin ConstructorParameterNames(k)
                         /\ ~HasAccessor(k, PropertiesOf(k)[n])
                         /\ OneRelationMethod(k, PropertiesOf(k)[n])
                    ELSE MethodsNamed(k, PropertiesOf(k)[n].name) = {}

\* the entity Order with the relation collection lines and the plain
\* properties id and note, under laravel with a constructor of all properties
C22_Witness ==
    /\ pc = "generated"
    /\ config.framework = "laravel"
    /\ config.constructorType = "all"
    /\ \E k \in DOMAIN files :
        /\ IsEntityFile(k)
        /\ \E n \in DOMAIN PropertiesOf(k) : PropertiesOf(k)[n].isRelation /\ PropertiesOf(k)[n].isCollection /\ PropertiesOf(k)[n].name = sLines
        /\ \E n \in DOMAIN PropertiesOf(k) : ~PropertiesOf(k)[n].isRelation
        /\ Cardinality(MethodsNamed(k, sLines)) = 1
        /\ ConstructorParameterNames(k) # {}

\* ------------------------------------------------------------------------
\* Doctrine mapping attributes
\* ------------------------------------------------------------------------

AttributesEnabled == config.framework = "doctrine" /\ config.doctrineAttributes # "false"

\* the mapping attribute a property is due
MappingOf(p) ==
    CASE p.isRelation /\ p.isCollection -> "Doctrine\\ORM\\Mapping\\OneToMany"
      [] p.isRelation /\ ~p.isCollection -> "Doctrine\\ORM\\Mapping\\ManyToOne"
      [] OTHER -> "Doctrine\\ORM\\Mapping\\Column"

FieldsNamed(k, name) == {j \in DOMAIN files[k].content.properties : files[k].content.properties[j].name = name}

\* property p is declared once in class k and carries its mapping attribute and no other
CarriesMapping(k, p) ==
    /\ Cardinality(FieldsNamed(k, p.name)) = 1
    /\ \A j \in FieldsNamed(k, p.name) :
        /\ Len(files[k].content.properties[j].attributes) = 1
        /\ files[k].content.properties[j].attributes[1].name = MappingOf(p)

\* C23: under doctrine with attributes enabled every property of every
\* entity carries exactly one mapping attribute in the emitted class:
\* OneToMany for a relation collection, ManyToOne for another relation,
\* Column otherwise, for every constructorType and with or without
\* constructor property promotion, promoted properties included.
C23_OneMappingPerProperty ==
    Generated /\ AttributesEnabled =>
        \A k \in DOMAIN files :
            IsEntityFile(k) => \A n \in DOMAIN PropertiesOf(k) : CarriesMapping(k, PropertiesOf(k)[n])

\* the same of the properties the constructor does not promote
OneMappingPerDeclaredProperty ==
    Generated /\ AttributesEnabled =>
        \A k \in DOMAIN files :
            IsEntityFile(k) =>
                \A n \in DOMAIN PropertiesOf(k) :
                    ~(config.constructorPropertyPromotion /\ PropertiesOf(k)[n].name \in ConstructorParameterNames(k)) =>
                        CarriesMapping(k, PropertiesOf(k)[n])

\* ------------------------------------------------------------------------
\* Readonly granularity
\* ------------------------------------------------------------------------

\* the fields and the promoted constructor parameters of class k, as marks
PropertyMarks(k) ==
    {files[k].content.properties[j].readOnly : j \in DOMAIN files[k].content.properties}
    \cup UNION {{files[k].content.methods[m].params[j].readOnly :
                    j \in {q \in DOMAIN files[k].content.methods[m].params : files[k].content.methods[m].params[q].promoted}}
                : m \in MethodsNamed(k, sConstruct)}

ClassMarked(k) == files[k].content.readOnly

NoPropertyMarked(k) == TRUE \notin PropertyMarks(k)

EveryPropertyMarked(k) == FALSE \notin PropertyMarks(k)

\* C24: the readonly marking of a value object goes by the PHP version and
\* is exclusive: with readonlyValueObjects set, 8.2, 8.3 and 8.4 mark the
\* class and no property, 8.1 marks every property (field or promoted
\* constructor parameter) and not the class; with readonlyValueObjects unset
\* nothing is marked.  An entity is never marked.
C24_ReadonlyGranularity ==
    Generated =>
        \A k \in DOMAIN files :
            /\ files[k].type = "valueobject" /\ config.readonlyValueObjects /\ config.phpVersion \in {"8.2", "8.3", "8.4"} =>
                ClassMarked(k) /\ NoPropertyMarked(k)
            /\ files[k].type = "valueobject" /\ config.readonlyValueObjects /\ config.phpVersion = "8.1" =>
                ~ClassMarked(k) /\ EveryPropertyMarked(k)
            /\ files[k].type = "valueobject" /\ ~config.readonlyValueObjects =>
                ~ClassMarked(k) /\ NoPropertyMarked(k)
            /\ files[k].type = "entity" => ~ClassMarked(k) /\ NoPropertyMarked(k)

\* a value object of two properties for 8.1 with promotion: no field, and
\* both promoted parameters marked
C24_Witness ==
    /\ pc = "generated"
    /\ config.readonlyValueObjects
    /\ config.phpVersion = "8.1"
    /\ config.constructorPropertyPromotion
    /\ \E k \in DOMAIN files :
        /\ files[k].type = "valueobject"
        /\ Len(PropertiesOf(k)) = 2
        /\ files[k].content.properties = <<>>
        /\ PropertyMarks(k) = {TRUE}
        /\ ~ClassMarked(k)

\* ------------------------------------------------------------------------
\* Lines of an open enumeration
\* ------------------------------------------------------------------------

LineRead == content'[Len(content')]

\* the step of parseCML that reads, an enumeration of the tree being open, a
\* line that is neither a closing brace nor a declaration
EnumDataStep ==
    /\ pc = "loop"
    /\ Len(content') = Len(content) + 1
    /\ LogicalLines(<<LineRead>>) # <<>>
    /\ currentEnum.ref = "tree"
    /\ BranchOf(ParserState, trim(LineRead)) \notin {"BoundedContext", "Aggregate", "Entity", "ValueObject", "enum", "ClosingBrace"}

\* the tree with the labels of the line added to the open enumeration
WithLabels(line) ==
    [boundedContexts EXCEPT ![currentEnum.bc].aggregates[currentEnum.ag].enums[currentEnum.ix].values = @ \o LabelsOf(trim(StripComment(line)))]

\* C25: while an enumeration is open, every line that is neither a closing
\* brace nor one of the five declarations is value data: each of its
\* non-empty labels is added to the open enumeration, whatever its spelling
\* (a label that holds the letters 'enum' too), and nothing else changes: no
\* entity or value object gets a property and no isAggregateRoot is set.
C25_EnumLinesAreValues == [][EnumDataStep => boundedContexts' = WithLabels(LineRead)]_vars

\* the same of the lines that are not one label holding the letters 'enum'
EnumLinesAreValuesButEnumWords ==
    [][EnumDataStep /\ ~(includes(LineRead, sEnumWord) /\ ~includes(LineRead, <<",">>)) => boundedContexts' = WithLabels(LineRead)]_vars

\* ------------------------------------------------------------------------
\* Property lines
\* ------------------------------------------------------------------------

\* the step of parseCML that reads a line
ReadStep == pc = "loop" /\ Len(content') = Len(content) + 1

PropertiesOfAggregate(b, a, ag) ==
    UNION {{<<b, a, "entity", u, p>> : p \in DOMAIN ag.entities[u].properties} : u \in DOMAIN ag.entities}
    \cup UNION {{<<b, a, "valueobject", u, p>> : p \in DOMAIN ag.valueObjects[u].properties} : u \in DOMAIN ag.valueObjects}

\* the places of the tree that hold a property
PropertyPlaces(contexts) ==
    UNION {UNION {PropertiesOfAggregate(b, a, contexts[b].aggregates[a]) : a \in DOMAIN contexts[b].aggregates} : b \in DOMAIN contexts}

\* C26: a property line gives the model one property at most: whatever the
\* order of the opening lines (an Entity opened while a ValueObject is open,
\* or the reverse, without a closing brace between them), at most one of the
\* cursors of entity and value object receives the parsed property.
C26_OnePropertyPerLine ==
    [][ReadStep => Cardinality(PropertyPlaces(boundedContexts')) <= Cardinality(PropertyPlaces(boundedContexts)) + 1]_vars

\* the same of the lines read while the entity or the value object is closed
OnePropertyPerLineUnderOneCursor ==
    [][ReadStep /\ (currentEntity = NullRef \/ currentValueObject = NullRef) =>
        Cardinality(PropertyPlaces(boundedContexts')) <= Cardinality(PropertyPlaces(boundedContexts)) + 1]_vars

\* ------------------------------------------------------------------------
\* Ownership of units
\* ------------------------------------------------------------------------

\* the step of parseCML that reads the declaration of an entity, a value
\* object or an enumeration
UnitStep ==
    /\ ReadStep
    /\ LogicalLines(<<LineRead>>) # <<>>
    /\ BranchOf(ParserState, trim(LineRead)) \in {"Entity", "ValueObject", "enum"}

\* the contexts opened before the one opened last are as they were
EarlierContextsUnchanged ==
    \A b \in 1..(Len(boundedContexts) - 1) : boundedContexts'[b] = boundedContexts[b]

\* C27: every entity, value object and enumeration of the model is owned by
\* an aggregate of the bounded context opened last before its declaration:
\* a unit declared after a 'BoundedContext B' line, and before an Aggregate
\* line of B, is never attached to an aggregate of an earlier context.
C27_UnitsStayInCurrentContext == [][UnitStep => EarlierContextsUnchanged]_vars

\* the same of the units declared when the current aggregate belongs to the
\* context opened last
UnitsStayInContextOfAggregate ==
    [][UnitStep /\ (currentAggregate.ref = "tree" => currentAggregate.bc = Len(boundedContexts)) => EarlierContextsUnchanged]_vars

\* ------------------------------------------------------------------------
\* Collections given to the constructor
\* ------------------------------------------------------------------------

\* the statements of the constructors of class k that give property name an
\* empty container
InitialisationsOf(k, name) ==
    UNION {{<<m, j>> : j \in {q \in DOMAIN files[k].content.methods[m].body :
                                IsInitialisation(files[k].content.methods[m].body[q]) /\ files[k].content.methods[m].body[q].name = name}}
           : m \in MethodsNamed(k, sConstruct)}

InitialisedAsDue(k, p) ==
    Cardinality(InitialisationsOf(k, p.name)) = IF p.name \in ConstructorParameterNames(k) THEN 0 ELSE 1

\* C28: under doctrine with constructorType 'required' or 'all', a
\* collection property that is a constructor parameter (plain or promoted)
\* is not given an empty container in the constructor body as well, and a
\* collection property that is no constructor parameter is initialised
\* exactly once in the body, for relation and non-relation collections alike.
C28_CollectionParameterNotInitialised ==
    Generated /\ config.framework = "doctrine" /\ config.constructorType \in {"required", "all"} =>
        \A k \in DOMAIN files :
            IsEntityFile(k) =>
                \A n \in DOMAIN PropertiesOf(k) : PropertiesOf(k)[n].isCollection => InitialisedAsDue(k, PropertiesOf(k)[n])

\* the same of the collections that are no relations
PrimitiveCollectionParameterNotInitialised ==
    Generated /\ config.framework = "doctrine" /\ config.constructorType \in {"required", "all"} =>
        \A k \in DOMAIN files :
            IsEntityFile(k) =>
                \A n \in DOMAIN PropertiesOf(k) :
                    PropertiesOf(k)[n].isCollection /\ ~PropertiesOf(k)[n].isRelation => InitialisedAsDue(k, PropertiesOf(k)[n])

\* ------------------------------------------------------------------------
\* Path and namespace under psr-4
\* ------------------------------------------------------------------------

\* the directories of the path of file k, each followed by its '/'
DirectoryOf(k) == Take(files[k].path, Len(files[k].path) - Len(files[k].filename))

\* the namespace of file k behind the prefix, each segment led by its '\'
BehindPrefix(k) == DropTo(files[k].content.namespace, Len(NamespacePrefix) + 1)

AsDirectory(segments) == IF segments = <<>> THEN <<>> ELSE [j \in 1..Len(segments) |-> IF j = Len(segments) THEN "/" ELSE IF segments[j + 1] = "\\" THEN "/" ELSE segments[j + 1]]

\* C29: under psr-4 the path and the namespace of every emitted file agree:
\* the directories of the path are the segments of the namespace that follow
\* the configured prefix, for every groupByType and every subfolder of a
\* pattern rule.
C29_PathMatchesNamespace ==
    Generated /\ config.directoryStructure = "psr-4" =>
        \A k \in DOMAIN files : DirectoryOf(k) = AsDirectory(BehindPrefix(k))

\* the same without type folders and rules, for units whose context and
\* aggregate have names
PathMatchesNamespaceWithoutFolders ==
    Generated /\ config.directoryStructure = "psr-4" /\ ~config.groupByType /\ NoRules =>
        \A k \in DOMAIN files :
            Units[k].context # <<>> /\ Units[k].aggregate # <<>> => DirectoryOf(k) = AsDirectory(BehindPrefix(k))

\* ------------------------------------------------------------------------
\* The readonly option without a PHP version
\* ------------------------------------------------------------------------

\* the value-object files are those of the other list
SameValueObjects(others) ==
    /\ Len(others) = Len(files)
    /\ \A k \in DOMAIN files : files[k].type = "valueobject" => files[k] = others[k]

ReadonlyUnset == [config EXCEPT !.readonlyValueObjects = FALSE]

\* C30: the effects of the readonly option on a value object (constructor
\* of all properties, no setters) occur only when a readonly marking is
\* emitted: with readonlyValueObjects set and no phpVersion configured, no
\* class and no property being marked, the emitted value object is the one
\* emitted with readonlyValueObjects unset.
C30_NoEffectWithoutMarking ==
    Generated /\ config.readonlyValueObjects /\ config.phpVersion = "undefined" =>
        SameValueObjects(generatePHP(model, ReadonlyUnset))

\* the same when the configuration asks for a constructor of all properties
\* and for no setters anyway
NoEffectUnderAllAndNoSetters ==
    Generated /\ config.readonlyValueObjects /\ config.phpVersion = "undefined"
        /\ config.constructorType = "all" /\ ~config.addSetters =>
        SameValueObjects(generatePHP(model, ReadonlyUnset))
====
